---- MODULE Spec2Model ----
(***************************************************************************)
(* A model of pysdccc: the requirement validator (check_requirements), the *)
(* runner construction (_BaseRunner.__init__), the two process execution   *)
(* engines (SdcccRunner.run / SdcccRunnerAsync.run) with the output they   *)
(* log, and the command builder (build_command).                           *)
(***************************************************************************)
EXTENDS Integers, Sequences, FiniteSets, TLC

VARIABLES
    \* ---- check_requirements(provided, available) ----
    provided,            \* the caller's catalog: ordered map standard -> (ordered map id -> bool)
    available,           \* the tool's catalog: map standard -> (map id -> bool)
    pc,                  \* position inside check_requirements
    si,                  \* index of the standard the outer for loop is at
    ri,                  \* index into provided_enabled the inner for loop is at
    provided_enabled,    \* local of the loop body (line 124)
    available_enabled,   \* local of the loop body (line 125)
    error,               \* the KeyError raised, or NoError
    examined,            \* the items the function has tested so far, in order
    prev,                \* the previous call of the caller's session, or NoPrev
    \* ---- _BaseRunner.__init__ and run ----
    ctor,                \* the constructor call: its arguments and how it ended
    runner,              \* the runner object (self.exe, self.test_run_dir), or NoRunner
    call,                \* the arguments of the run call, or NoCall
    rpc,                 \* position of the run call
    result,              \* what run returned or raised
    spawnCalls,          \* invocations of subprocess.Popen / loop.subprocess_exec
    child,               \* the child process: "none", "running", "exited"
    exitStatus,          \* the exit status the operating system holds for the child
    returncode,          \* proc.returncode / transport.get_returncode(): None or <<code>>
    timerExpired,        \* the timeout of the wait has elapsed
    timedOut,            \* TimeoutExpired / TimeoutError reached the except clause
    killCalls,           \* invocations of proc.kill() / transport.kill()
    pipesClosed,         \* proc.stdout and proc.stderr were closed by the main thread
    readers,             \* the two _log_pipe threads
    closed_event,        \* _SdcccSubprocessProtocol.closed_event
    transportClosed,     \* transport.close() was called
    \* ---- the child's output and the logging sink ----
    written,             \* per stream, the number of lines the child has written
    delivered,           \* per stream, the number of lines taken out of the pipe
    log,                 \* the entries handed to logger.info / logger.error, in order
    protocolError,       \* the error a protocol callback raised into the event loop
    \* ---- build_command ----
    bc_args,             \* the positional arguments
    bc_kwargs,           \* the keyword arguments, in the order given
    bc_built,            \* build_command has returned
    bc_command,          \* the string it returned
    \* ---- the command run hands to the child ----
    iv_in,               \* the call: module, variant, paths and extra flags
    iv_out,              \* how it ended: the error, the argument string, the child's argv
    \* --- get_exe_path and the legacy _get_exe_path ---
    ex_in,               \* the call: the resolver and the entries of the directory
    ex_out,              \* the path returned or the error raised
    \* --- run followed by parse_results ---
    pr_in,               \* the exit code of the run and the report files of the directory
    pr_out,              \* what run returned and what parse_results returned or raised
    \* --- get_version ---
    gv_in,               \* the variant, the child's exit code and its stdout
    gv_out,              \* the value returned or the error raised
    \* --- get_config, get_requirements, get_test_parameter, check_requirements ---
    ac_in,               \* the content of the configuration files at this moment
    ac_out,              \* the last accessor call and what it returned
    \* --- the two variants side by side ---
    eq_in,               \* the inputs and the child's behaviour given to both
    eq_out,              \* the outcome of SdcccRunner and of SdcccRunnerAsync
    \* --- is_downloaded and is_downloaded_async ---
    dl_in,               \* the variant, the version asked for, the installation
    dl_out,              \* the value returned or the error raised
    \* --- the working directory of the process ---
    cw_cwd,              \* the current working directory of the calling process
    cw_threads,          \* per thread: the call it makes and how far it is
    \* --- the legacy download ---
    rd_in,               \* the chain of responses the servers give
    rd_out,              \* the recursion: hops, open connections, the stream, the outcome
    \* --- processes the child has started ---
    heldOpen             \* per stream: whether a descendant of the child has the write end
                         \* open: "no", "yes", or "released" (it had and let go)

reqVars == <<provided, available, pc, si, ri, provided_enabled, available_enabled,
             error, examined, prev>>

runVars == <<ctor, runner, call, rpc, result, spawnCalls, child, exitStatus, returncode,
             timerExpired, timedOut, killCalls, pipesClosed, readers, closed_event,
             transportClosed>>

outVars == <<written, delivered, log, protocolError>>

cmdVars == <<bc_args, bc_kwargs, bc_built, bc_command>>

ivVars == <<iv_in, iv_out>>

\* The parts of the program that are modelled one operation at a time
exVars == <<ex_in, ex_out>>
prVars == <<pr_in, pr_out>>
gvVars == <<gv_in, gv_out>>
acVars == <<ac_in, ac_out>>
eqVars == <<eq_in, eq_out>>
dlVars == <<dl_in, dl_out>>
cwVars == <<cw_cwd, cw_threads>>
rdVars == <<rd_in, rd_out>>
ptVars == <<heldOpen>>
laterVars == <<dlVars, cwVars, rdVars, ptVars>>
restVars == <<ivVars, exVars, prVars, gvVars, acVars, eqVars, laterVars>>

vars == <<reqVars, runVars, outVars, cmdVars, restVars>>

\* What the steps of one part of the program leave alone
notReqVars == <<runVars, outVars, cmdVars, restVars>>
notRunVars == <<reqVars, outVars, cmdVars, restVars>>

(***************************************************************************)
(* The state before any runner is constructed                               *)
(***************************************************************************)

None == <<>>

NoCtor == [called |-> FALSE]
NoRunner == [exists |-> FALSE]
NoCall == [called |-> FALSE]
NoResult == [kind |-> "none", value |-> None]

Streams == {"stdout", "stderr"}

NoRunnerYet ==
    /\ ctor = NoCtor
    /\ runner = NoRunner
    /\ call = NoCall
    /\ rpc = "no_runner"
    /\ result = NoResult
    /\ spawnCalls = 0
    /\ child = "none"
    /\ exitStatus = None
    /\ returncode = None
    /\ timerExpired = FALSE
    /\ timedOut = FALSE
    /\ killCalls = 0
    /\ pipesClosed = FALSE
    /\ readers = [s \in Streams |-> "unstarted"]
    /\ closed_event = FALSE
    /\ transportClosed = FALSE

\* The child has written nothing and nothing was logged.
NoOutput ==
    /\ written = [s \in Streams |-> 0]
    /\ delivered = [s \in Streams |-> 0]
    /\ log = <<>>
    /\ protocolError = "none"

\* build_command is not called.
NoCommand ==
    /\ bc_args = <<>>
    /\ bc_kwargs = <<>>
    /\ bc_built = FALSE
    /\ bc_command = <<>>

\* run is not called.
NoInvocation ==
    /\ iv_in = [called |-> FALSE]
    /\ iv_out = [done |-> FALSE]

NoResolution ==
    /\ ex_in = [called |-> FALSE]
    /\ ex_out = [done |-> FALSE]

NoParse ==
    /\ pr_in = [called |-> FALSE]
    /\ pr_out = [done |-> FALSE]

NoVersionQuery ==
    /\ gv_in = [called |-> FALSE]
    /\ gv_out = [done |-> FALSE]

NoAccess ==
    /\ ac_in = [called |-> FALSE]
    /\ ac_out = [done |-> FALSE]

NoComparison ==
    /\ eq_in = [called |-> FALSE]
    /\ eq_out = [done |-> FALSE]

NoDownloadCheck ==
    /\ dl_in = [called |-> FALSE]
    /\ dl_out = [done |-> FALSE]

NoCwd ==
    /\ cw_cwd = "untracked"
    /\ cw_threads = <<>>

NoRedirects ==
    /\ rd_in = [called |-> FALSE]
    /\ rd_out = [done |-> FALSE]

NoDescendants == heldOpen = [stream \in {"stdout", "stderr"} |-> "no"]

NoLater == NoDownloadCheck /\ NoCwd /\ NoRedirects /\ NoDescendants

NoRest ==
    /\ NoInvocation /\ NoResolution /\ NoParse /\ NoVersionQuery /\ NoAccess /\ NoComparison
    /\ NoLater

(***************************************************************************)
(* Requirement catalogs                                                     *)
(***************************************************************************)

\* The standard names and requirement ids the inputs are drawn from.
StandardNames == {"biceps", "mdpws"}
RequirementIds == {"b1", "b2"}

\* The largest number of requirement ids (over all standards) of a provided catalog.
MaxProvidedEntries == 3

Range(s) == {s[i] : i \in DOMAIN s}

\* dict[str, bool] of a provided standard: insertion-ordered, keys unique.
RequirementMaps ==
    {m \in UNION {[1..n -> [req : RequirementIds, enabled : BOOLEAN]] :
                    n \in 0..Cardinality(RequirementIds)} :
        \A i, j \in DOMAIN m : i # j => m[i].req # m[j].req}

TotalEntries(p) ==
    LET RECURSIVE Sum(_)
        Sum(i) == IF i = 0 THEN 0 ELSE Len(p[i].requirements) + Sum(i - 1)
    IN  Sum(Len(p))

\* dict[str, dict[str, bool]] as the caller provides it: insertion-ordered, keys unique.
ProvidedCatalogs ==
    {p \in UNION {[1..n -> [standard : StandardNames, requirements : RequirementMaps]] :
                    n \in 0..Cardinality(StandardNames)} :
        /\ \A i, j \in DOMAIN p : i # j => p[i].standard # p[j].standard
        /\ TotalEntries(p) <= MaxProvidedEntries}

\* dict[str, dict[str, bool]] as sdccc declares it: only membership and lookups are used.
AvailableCatalogs ==
    UNION {[S -> UNION {[I -> BOOLEAN] : I \in SUBSET RequirementIds}] :
             S \in SUBSET StandardNames}

NoError == [kind |-> "none", standard |-> "", req |-> ""]
\* KeyError(f'Unsupported standard "{standard}". ...')
UnsupportedStandard(standard) == [kind |-> "KeyError", standard |-> standard, req |-> ""]
\* KeyError(f'Requirement id "{standard}.{req}" not found')
RequirementNotFound(standard, req) == [kind |-> "KeyError", standard |-> standard, req |-> req]

NoPrev == [called |-> FALSE, provided |-> <<>>, error |-> NoError]

\* Mutant of ProvidedEnabled: the "if enabled" filter is forgotten.
ProvidedEnabledUnfiltered(requirements) ==
    [k \in DOMAIN requirements |-> requirements[k].req]

\* [req for req, enabled in requirements.items() if enabled]
ProvidedEnabled(requirements) ==
    LET RECURSIVE Filter(_)
        Filter(i) ==
            IF i = 0 THEN <<>>
            ELSE IF requirements[i].enabled
                 THEN Append(Filter(i - 1), requirements[i].req)
                 ELSE Filter(i - 1)
    IN  Filter(Len(requirements))

\* Mutant of AvailableEnabled: the filter is inverted ("if not enabled").
AvailableEnabledNegated(avail, standard) ==
    {a \in DOMAIN avail[standard] : ~avail[standard][a]}

\* Mutant of AvailableEnabled: the availability flag is ignored (list(available[standard])).
AvailableEnabledAnyState(avail, standard) ==
    DOMAIN avail[standard]

\* [a for a, enabled in available[standard].items() if enabled]
AvailableEnabled(avail, standard) ==
    {a \in DOMAIN avail[standard] : avail[standard][a]}

\* provided[standard][req] = value, for a key the catalog holds
SetRequirement(p, standard, req, value) ==
    [i \in DOMAIN p |->
        IF p[i].standard # standard THEN p[i]
        ELSE [p[i] EXCEPT !.requirements =
                [j \in DOMAIN p[i].requirements |->
                    IF p[i].requirements[j].req = req
                    THEN [req |-> req, enabled |-> value]
                    ELSE p[i].requirements[j]]]]

(***************************************************************************)
(* check_requirements, one action per loop step                             *)
(***************************************************************************)

InitCall ==
    /\ pc = "for_standard"
    /\ si = 1
    /\ ri = 0
    /\ provided_enabled = <<>>
    /\ available_enabled = {}
    /\ error = NoError
    /\ examined = <<>>

InitRequirements ==
    /\ provided \in ProvidedCatalogs
    /\ available \in AvailableCatalogs
    /\ prev = NoPrev
    /\ InitCall
    /\ NoRunnerYet
    /\ NoOutput
    /\ NoCommand
    /\ NoRest

\* Mutant of NextStandard: a standard that available lacks is skipped, not rejected.
NextStandardSkipsUnsupported ==
    /\ pc = "for_standard"
    /\ si <= Len(provided)
    /\ LET standard == provided[si].standard
           requirements == provided[si].requirements
       IN  /\ examined' = Append(examined, <<standard, "">>)
           /\ IF standard \notin DOMAIN available
              THEN /\ si' = si + 1
                   /\ UNCHANGED <<ri, provided_enabled, available_enabled, pc>>
              ELSE /\ provided_enabled' = ProvidedEnabled(requirements)
                   /\ available_enabled' = AvailableEnabled(available, standard)
                   /\ ri' = 1
                   /\ pc' = "for_req"
                   /\ UNCHANGED si
    /\ UNCHANGED <<provided, available, error, prev>>

\* for standard, requirements in provided.items(): the next standard
NextStandard ==
    /\ pc = "for_standard"
    /\ si <= Len(provided)
    /\ LET standard == provided[si].standard
           requirements == provided[si].requirements
       IN  /\ examined' = Append(examined, <<standard, "">>)
           /\ IF standard \notin DOMAIN available
              THEN /\ error' = UnsupportedStandard(standard)
                   /\ pc' = "raised"
                   /\ UNCHANGED <<ri, provided_enabled, available_enabled>>
              ELSE /\ provided_enabled' = ProvidedEnabled(requirements)
                   /\ available_enabled' = AvailableEnabled(available, standard)
                   /\ ri' = 1
                   /\ pc' = "for_req"
                   /\ UNCHANGED error
    /\ UNCHANGED <<provided, available, si, prev>>

\* the outer loop is exhausted: the function returns None
ReturnNone ==
    /\ pc = "for_standard"
    /\ si > Len(provided)
    /\ pc' = "returned"
    /\ UNCHANGED <<provided, available, si, ri, provided_enabled, available_enabled,
                   error, examined, prev>>

\* Mutant of NextRequirement: the error is recorded and the loop goes on.
NextRequirementKeepsGoing ==
    /\ pc = "for_req"
    /\ ri <= Len(provided_enabled)
    /\ LET standard == provided[si].standard
           req == provided_enabled[ri]
       IN  /\ examined' = Append(examined, <<standard, req>>)
           /\ error' = IF req \notin available_enabled
                       THEN RequirementNotFound(standard, req)
                       ELSE error
           /\ ri' = ri + 1
    /\ UNCHANGED <<provided, available, pc, si, provided_enabled, available_enabled, prev>>

\* for req in provided_enabled: the next enabled id
NextRequirement ==
    /\ pc = "for_req"
    /\ ri <= Len(provided_enabled)
    /\ LET standard == provided[si].standard
           req == provided_enabled[ri]
       IN  /\ examined' = Append(examined, <<standard, req>>)
           /\ IF req \notin available_enabled
              THEN /\ error' = RequirementNotFound(standard, req)
                   /\ pc' = "raised"
                   /\ UNCHANGED ri
              ELSE /\ ri' = ri + 1
                   /\ UNCHANGED <<error, pc>>
    /\ UNCHANGED <<provided, available, si, provided_enabled, available_enabled, prev>>

\* the inner loop is exhausted: on to the next standard
EndRequirements ==
    /\ pc = "for_req"
    /\ ri > Len(provided_enabled)
    /\ si' = si + 1
    /\ pc' = "for_standard"
    /\ UNCHANGED <<provided, available, ri, provided_enabled, available_enabled,
                   error, examined, prev>>

\* The caller's session of test_check_requirements: after a call that raised for an
\* id, provided[standard][id] = False and check_requirements is called again.
DisableAndCallAgain ==
    /\ pc = "raised"
    /\ error.req # ""
    /\ ~prev.called
    /\ prev' = [called |-> TRUE, provided |-> provided, error |-> error]
    /\ provided' = SetRequirement(provided, error.standard, error.req, FALSE)
    /\ pc' = "for_standard"
    /\ si' = 1
    /\ ri' = 0
    /\ provided_enabled' = <<>>
    /\ available_enabled' = {}
    /\ error' = NoError
    /\ examined' = <<>>
    /\ UNCHANGED available

NextRequirements ==
    \/ NextStandard /\ UNCHANGED notReqVars
    \/ ReturnNone /\ UNCHANGED notReqVars
    \/ NextRequirement /\ UNCHANGED notReqVars
    \/ EndRequirements /\ UNCHANGED notReqVars
    \/ DisableAndCallAgain /\ UNCHANGED notReqVars

SpecRequirements == InitRequirements /\ [][NextRequirements]_vars

(***************************************************************************)
(* Properties of check_requirements                                         *)
(***************************************************************************)

Returned == pc = "returned"
Raised == pc = "raised"
Finished == Returned \/ Raised

\* The enabled ids of one provided standard, in map order.
EnabledIds(requirements) ==
    LET on == SelectSeq(requirements, LAMBDA e : e.enabled)
    IN  [k \in DOMAIN on |-> on[k].req]

IsEnabledIn(a, standard, req) ==
    /\ standard \in DOMAIN a
    /\ req \in DOMAIN a[standard]
    /\ a[standard][req]

ExistsIn(a, standard, req) ==
    /\ standard \in DOMAIN a
    /\ req \in DOMAIN a[standard]

\* every standard of p exists in a, and every id p enables exists and is enabled there
EnabledValid(p, a) ==
    \A i \in DOMAIN p :
        /\ p[i].standard \in DOMAIN a
        /\ \A r \in Range(EnabledIds(p[i].requirements)) : IsEnabledIn(a, p[i].standard, r)

\* every standard of p exists in a, and every id p enables exists there in any state
ExistenceValid(p, a) ==
    \A i \in DOMAIN p :
        /\ p[i].standard \in DOMAIN a
        /\ \A r \in Range(EnabledIds(p[i].requirements)) : ExistsIn(a, p[i].standard, r)

\* what the validator objects to: <<standard, "">> or <<standard, id>>
Violations(p, a) ==
    {<<p[i].standard, "">> : i \in {k \in DOMAIN p : p[k].standard \notin DOMAIN a}}
    \cup
    UNION {{<<p[i].standard, r>> :
               r \in {x \in Range(EnabledIds(p[i].requirements)) :
                        ~IsEnabledIn(a, p[i].standard, x)}} :
           i \in {k \in DOMAIN p : p[k].standard \in DOMAIN a}}

\* the only violation of p is the enabled id standard.req, absent from a[standard]
OnlyAbsentId(p, a, standard, req) ==
    /\ Violations(p, a) = {<<standard, req>>}
    /\ req # ""
    /\ ~ExistsIn(a, standard, req)

\* C1: when every standard of provided exists in available and every id provided
\* enables exists and is enabled in available[standard], check_requirements returns
\* without raising.
C1_ValidCatalogAccepted ==
    (Finished /\ EnabledValid(provided, available)) => (Returned /\ error = NoError)

C1_Witness ==
    /\ Returned
    /\ ~prev.called
    /\ EnabledValid(provided, available)
    /\ \E i \in DOMAIN provided :
          /\ Len(EnabledIds(provided[i].requirements)) > 0
          /\ Len(EnabledIds(provided[i].requirements)) < Len(provided[i].requirements)

\* C2: a provided catalog whose only violation is one enabled id absent from
\* available[standard] is rejected (naming that id), and the same catalog with just
\* that id set to disabled is accepted.
C2_Toggle ==
    /\ \A s \in StandardNames, r \in RequirementIds :
          (Finished /\ OnlyAbsentId(provided, available, s, r))
              => (Raised /\ error = RequirementNotFound(s, r))
    /\ \A s \in StandardNames, r \in RequirementIds :
          (/\ Finished
           /\ prev.called
           /\ OnlyAbsentId(prev.provided, available, s, r)
           /\ provided = SetRequirement(prev.provided, s, r, FALSE))
              => Returned

C2_Witness ==
    /\ Returned
    /\ prev.called
    /\ \E s \in StandardNames, r \in RequirementIds :
          /\ OnlyAbsentId(prev.provided, available, s, r)
          /\ prev.error = RequirementNotFound(s, r)
          /\ provided = SetRequirement(prev.provided, s, r, FALSE)
    /\ \E i \in DOMAIN provided : Len(EnabledIds(provided[i].requirements)) > 0

\* C3: a provided catalog naming a standard that available lacks is rejected with
\* KeyError, whatever the enabled values of that standard's ids (all disabled, or none
\* at all).
C3_UnknownStandardRejected ==
    (Finished /\ \E i \in DOMAIN provided : provided[i].standard \notin DOMAIN available)
        => (Raised /\ error.kind = "KeyError")

C3_Witness ==
    /\ Raised
    /\ error.req = ""
    /\ Violations(provided, available) = {<<error.standard, "">>}
    /\ \E i \in DOMAIN provided :
          /\ provided[i].standard = error.standard
          /\ Len(provided[i].requirements) > 0
          /\ Len(EnabledIds(provided[i].requirements)) = 0

\* C4 as stated: acceptance depends only on the existence of the ids, so a catalog is
\* accepted exactly when its standards exist and its enabled ids exist in any state.
C4_Original_ExistenceDecides ==
    Finished => (Returned <=> ExistenceValid(provided, available))

\* C4 as amended: a catalog is accepted exactly when every standard it names exists in
\* available and every id it enables exists and is enabled among that standard's
\* available ids; an id enabled in provided and disabled in available is rejected.
C4_EnabledDecides ==
    Finished => (Returned <=> EnabledValid(provided, available))

C4_Witness ==
    /\ Raised
    /\ ExistenceValid(provided, available)
    /\ ~EnabledValid(provided, available)
    /\ ExistsIn(available, error.standard, error.req)
    /\ ~available[error.standard][error.req]

\* The order check_requirements walks provided in: each standard, then its enabled ids.
IterationOrder(p) ==
    LET RECURSIVE Walk(_)
        Walk(i) ==
            IF i = 0 THEN <<>>
            ELSE Walk(i - 1) \o <<(<<p[i].standard, "">>)>>
                 \o [k \in DOMAIN EnabledIds(p[i].requirements) |->
                        <<p[i].standard, EnabledIds(p[i].requirements)[k]>>]
    IN  Walk(Len(p))

IsViolation(a, item) ==
    IF item[2] = "" THEN item[1] \notin DOMAIN a
    ELSE item[1] \in DOMAIN a /\ ~IsEnabledIn(a, item[1], item[2])

\* C5: check_requirements stops at the first violation in iteration order: what it has
\* examined is a prefix of the iteration order holding no violation before its last
\* item, and when it raises the error names exactly that last, first offending item.
C5_StopsAtFirstViolation ==
    /\ Len(examined) <= Len(IterationOrder(provided))
    /\ examined = SubSeq(IterationOrder(provided), 1, Len(examined))
    /\ \A k \in 1..(Len(examined) - 1) : ~IsViolation(available, examined[k])
    /\ Raised =>
          /\ Len(examined) > 0
          /\ IsViolation(available, examined[Len(examined)])
          /\ error = [kind |-> "KeyError",
                      standard |-> examined[Len(examined)][1],
                      req |-> examined[Len(examined)][2]]
    /\ (Len(examined) > 0 /\ IsViolation(available, examined[Len(examined)])) => Raised

C5_Witness ==
    /\ Raised
    /\ Cardinality(Violations(provided, available)) >= 2
    /\ Len(examined) >= 2
    /\ Len(examined) < Len(IterationOrder(provided))

(***************************************************************************)
(* Paths, as the queries the code makes of them answer                      *)
(***************************************************************************)

\* exe=None
NoExe == [given |-> FALSE, absolute |-> FALSE, kind |-> "missing", name |-> ""]

\* The exe argument of _BaseRunner.__init__: None, or a path that is absolute or not
\* and names a regular file, a directory or nothing.
ExeArgs ==
    {NoExe} \cup [given : {TRUE}, absolute : BOOLEAN, kind : {"file", "dir", "missing"},
                  name : {"sdccc.exe"}]

\* The test_run_dir argument; a directory holds files already, or is empty.
DirArgs ==
    [absolute : BOOLEAN, kind : {"file", "missing"}, empty : {TRUE}]
    \cup [absolute : BOOLEAN, kind : {"dir"}, empty : BOOLEAN]

\* The directory entries of DEFAULT_STORAGE_DIRECTORY that end in .exe.
StorageNames == {"sdccc-1.exe", "sdccc-2.exe"}
Storages == [StorageNames -> {"absent", "file", "dir"}]
StorageNotRead == [n \in StorageNames |-> "absent"]

\* The config and requirements arguments of run.
FileArgs == [absolute : BOOLEAN, exists : BOOLEAN]

Timeouts == {"None", "finite"}
Variants == {"SdcccRunner", "SdcccRunnerAsync"}

\* The largest exit code the child ends with on its own.
MaxExitCode == 1
ExitCodes == 0..MaxExitCode
\* The exit status of a killed child: -SIGKILL on POSIX, TerminateProcess(handle, 1) on Windows.
KilledExitCodes == {-9, 1}

Returns(code) == [kind |-> "int", code |-> <<code>>, message |-> ""]
Raises(kind, message) == [kind |-> kind, code |-> None, message |-> message]

\* get_exe_path(local_path).absolute(): the one regular *.exe file, or FileNotFoundError
get_exe_path(storage) ==
    LET files == {n \in StorageNames : storage[n] = "file"}
    IN  IF ~(Cardinality(files) = 1)
        THEN [error |-> "FileNotFoundError", path |-> NoExe]
        ELSE [error |-> "none",
              path |-> [given |-> TRUE, absolute |-> TRUE, kind |-> "file",
                        name |-> CHOOSE n \in files : TRUE]]

\* Mutant of BaseRunnerInit: the is_file() test of the executable is missing.
BaseRunnerInitNoFileCheck(exe, test_run_dir, storage) ==
    LET found == IF exe.given THEN [error |-> "none", path |-> exe] ELSE get_exe_path(storage)
    IN  IF found.error # "none"
        THEN [error |-> "FileNotFoundError", message |-> "Have you downloaded sdccc?", exe |-> NoExe]
        ELSE IF ~found.path.absolute
        THEN [error |-> "ValueError", message |-> "Path to executable must be absolute", exe |-> NoExe]
        ELSE IF ~test_run_dir.absolute
        THEN [error |-> "ValueError", message |-> "Path to test run directory must be absolute", exe |-> NoExe]
        ELSE IF ~(test_run_dir.kind = "dir")
        THEN [error |-> "ValueError", message |-> "Test run directory is not a directory", exe |-> NoExe]
        ELSE [error |-> "none", message |-> "", exe |-> found.path]

\* _BaseRunner.__init__(test_run_dir, exe): the error raised, or the executable bound
BaseRunnerInit(exe, test_run_dir, storage) ==
    LET found == IF exe.given THEN [error |-> "none", path |-> exe] ELSE get_exe_path(storage)
    IN  IF found.error # "none"
        THEN [error |-> "FileNotFoundError", message |-> "Have you downloaded sdccc?", exe |-> NoExe]
        ELSE IF ~found.path.absolute
        THEN [error |-> "ValueError", message |-> "Path to executable must be absolute", exe |-> NoExe]
        ELSE IF ~(found.path.kind = "file")
        THEN [error |-> "FileNotFoundError", message |-> "No executable found under exe", exe |-> NoExe]
        ELSE IF ~test_run_dir.absolute
        THEN [error |-> "ValueError", message |-> "Path to test run directory must be absolute", exe |-> NoExe]
        ELSE IF ~(test_run_dir.kind = "dir")
        THEN [error |-> "ValueError", message |-> "Test run directory is not a directory", exe |-> NoExe]
        ELSE [error |-> "none", message |-> "", exe |-> found.path]

(***************************************************************************)
(* Construction of a runner and the call of run                             *)
(***************************************************************************)

\* SdcccRunner(test_run_dir, exe) / SdcccRunnerAsync(test_run_dir, exe)
Construct ==
    /\ rpc = "no_runner"
    /\ ~ctor.called
    /\ \E exe \in ExeArgs, test_run_dir \in DirArgs, storage \in Storages :
          LET init == BaseRunnerInit(exe, test_run_dir, storage)
          IN  /\ ~exe.given \/ storage = StorageNotRead
              /\ ctor' = [called |-> TRUE, exe |-> exe, test_run_dir |-> test_run_dir,
                          storage |-> storage, error |-> init.error, message |-> init.message]
              /\ runner' = IF init.error = "none"
                           THEN [exists |-> TRUE, exe |-> init.exe, test_run_dir |-> test_run_dir]
                           ELSE NoRunner
              /\ rpc' = IF init.error = "none" THEN "idle" ELSE "no_runner"
    /\ UNCHANGED <<call, result, spawnCalls, child, exitStatus, returncode, timerExpired,
                   timedOut, killCalls, pipesClosed, readers, closed_event, transportClosed>>

\* runner.run(config, requirements, timeout) is called
CallRun ==
    /\ rpc = "idle"
    /\ ~call.called
    /\ \E variant \in Variants, config \in FileArgs, requirements \in FileArgs,
          timeout \in Timeouts :
          call' = [called |-> TRUE, variant |-> variant, config |-> config,
                   requirements |-> requirements, timeout |-> timeout]
    /\ rpc' = "prepare"
    /\ UNCHANGED <<ctor, runner, result, spawnCalls, child, exitStatus, returncode,
                   timerExpired, timedOut, killCalls, pipesClosed, readers, closed_event,
                   transportClosed>>

\* Mutant of PrepareExecutionCommand: the requirements path is not checked.
PrepareExecutionCommandSkipsRequirements ==
    /\ rpc = "prepare"
    /\ IF ~call.config.absolute
       THEN /\ result' = Raises("ValueError", "Path to config file must be absolute")
            /\ rpc' = "done"
       ELSE /\ rpc' = "spawn"
            /\ UNCHANGED result
    /\ UNCHANGED <<ctor, runner, call, spawnCalls, child, exitStatus, returncode,
                   timerExpired, timedOut, killCalls, pipesClosed, readers, closed_event,
                   transportClosed>>

\* self._prepare_execution_command(config, requirements, **kwargs)
PrepareExecutionCommand ==
    /\ rpc = "prepare"
    /\ IF ~call.config.absolute
       THEN /\ result' = Raises("ValueError", "Path to config file must be absolute")
            /\ rpc' = "done"
       ELSE IF ~call.requirements.absolute
       THEN /\ result' = Raises("ValueError", "Path to requirements file must be absolute")
            /\ rpc' = "done"
       ELSE /\ rpc' = "spawn"
            /\ UNCHANGED result
    /\ UNCHANGED <<ctor, runner, call, spawnCalls, child, exitStatus, returncode,
                   timerExpired, timedOut, killCalls, pipesClosed, readers, closed_event,
                   transportClosed>>

(***************************************************************************)
(* The child process and the clock                                          *)
(***************************************************************************)

\* The child terminates on its own.
ChildExits ==
    /\ child = "running"
    /\ \E code \in ExitCodes : exitStatus' = <<code>>
    /\ child' = "exited"
    /\ UNCHANGED <<ctor, runner, call, rpc, result, spawnCalls, returncode, timerExpired,
                   timedOut, killCalls, pipesClosed, readers, closed_event, transportClosed>>

\* Mutant of TimerExpires: a timeout of None runs out like a finite one.
TimerExpiresWithoutTimeout ==
    /\ rpc \in {"wait", "await_closed"}
    /\ ~timerExpired
    /\ timerExpired' = TRUE
    /\ UNCHANGED <<ctor, runner, call, rpc, result, spawnCalls, child, exitStatus,
                   returncode, timedOut, killCalls, pipesClosed, readers, closed_event,
                   transportClosed>>

\* The timeout given to the wait elapses.
TimerExpires ==
    /\ rpc \in {"wait", "await_closed"}
    /\ call.timeout = "finite"
    /\ ~timerExpired
    /\ timerExpired' = TRUE
    /\ UNCHANGED <<ctor, runner, call, rpc, result, spawnCalls, child, exitStatus,
                   returncode, timedOut, killCalls, pipesClosed, readers, closed_event,
                   transportClosed>>

(***************************************************************************)
(* The blocking engine: _run_sdccc, one action per statement                *)
(***************************************************************************)

IsBlocking == call.called /\ call.variant = "SdcccRunner"
IsConcurrent == call.called /\ call.variant = "SdcccRunnerAsync"

\* Mutant of Popen: a failed launch is reported as an exit code.
PopenFailureReturnsCode ==
    /\ rpc = "spawn"
    /\ IsBlocking
    /\ spawnCalls' = spawnCalls + 1
    /\ \E started \in BOOLEAN :
          IF started
          THEN /\ child' = "running"
               /\ rpc' = "start_readers"
               /\ UNCHANGED result
          ELSE /\ result' = Returns(1)
               /\ rpc' = "done"
               /\ UNCHANGED child
    /\ UNCHANGED <<ctor, runner, call, exitStatus, returncode, timerExpired, timedOut,
                   killCalls, pipesClosed, readers, closed_event, transportClosed>>

\* with subprocess.Popen(f"{exe_path} {args}", ...) as proc: the child starts, or
\* Popen raises OSError and run raises it on
Popen ==
    /\ rpc = "spawn"
    /\ IsBlocking
    /\ spawnCalls' = spawnCalls + 1
    /\ \E started \in BOOLEAN :
          IF started
          THEN /\ child' = "running"
               /\ rpc' = "start_readers"
               /\ UNCHANGED result
          ELSE /\ result' = Raises("OSError", "the executable could not be started")
               /\ rpc' = "done"
               /\ UNCHANGED child
    /\ UNCHANGED <<ctor, runner, call, exitStatus, returncode, timerExpired, timedOut,
                   killCalls, pipesClosed, readers, closed_event, transportClosed>>

\* std_out_logger.start(); std_err_logger.start()
StartReaders ==
    /\ rpc = "start_readers"
    /\ readers' = [s \in Streams |-> "running"]
    /\ rpc' = "wait"
    /\ UNCHANGED <<ctor, runner, call, result, spawnCalls, child, exitStatus, returncode,
                   timerExpired, timedOut, killCalls, pipesClosed, closed_event,
                   transportClosed>>

\* proc.wait(timeout=timeout) returns: the child has terminated
WaitReturns ==
    /\ rpc = "wait"
    /\ child = "exited"
    /\ returncode' = exitStatus
    /\ rpc' = "close_pipes"
    /\ UNCHANGED <<ctor, runner, call, result, spawnCalls, child, exitStatus, timerExpired,
                   timedOut, killCalls, pipesClosed, readers, closed_event, transportClosed>>

\* proc.wait(timeout=timeout) raises subprocess.TimeoutExpired
WaitTimeoutExpired ==
    /\ rpc = "wait"
    /\ timerExpired
    /\ child = "running"
    /\ timedOut' = TRUE
    /\ rpc' = "kill"
    /\ UNCHANGED <<ctor, runner, call, result, spawnCalls, child, exitStatus, returncode,
                   timerExpired, killCalls, pipesClosed, readers, closed_event,
                   transportClosed>>

\* except subprocess.TimeoutExpired: proc.kill(); a child that terminated meanwhile
\* is left alone (Popen.send_signal polls first)
Kill ==
    /\ rpc = "kill"
    /\ IsBlocking
    /\ killCalls' = killCalls + 1
    /\ IF child = "running"
       THEN /\ child' = "exited"
            /\ \E code \in KilledExitCodes : exitStatus' = <<code>>
       ELSE UNCHANGED <<child, exitStatus>>
    /\ rpc' = "close_pipes"
    /\ UNCHANGED <<ctor, runner, call, result, spawnCalls, returncode, timerExpired,
                   timedOut, pipesClosed, readers, closed_event, transportClosed>>

\* finally: proc.stdout.close(); proc.stderr.close()
ClosePipes ==
    /\ rpc = "close_pipes"
    /\ pipesClosed' = TRUE
    /\ rpc' = "popen_exit"
    /\ UNCHANGED <<ctor, runner, call, result, spawnCalls, child, exitStatus, returncode,
                   timerExpired, timedOut, killCalls, readers, closed_event, transportClosed>>

\* Popen.__exit__: waits for the child and sets proc.returncode
PopenExit ==
    /\ rpc = "popen_exit"
    /\ child = "exited"
    /\ returncode' = exitStatus
    /\ rpc' = "join"
    /\ UNCHANGED <<ctor, runner, call, result, spawnCalls, child, exitStatus, timerExpired,
                   timedOut, killCalls, pipesClosed, readers, closed_event, transportClosed>>

\* std_out_logger.join(1); std_err_logger.join(1); return proc.returncode
JoinAndReturn ==
    /\ rpc = "join"
    /\ result' = IF returncode = None
                 THEN [kind |-> "NoneType", code |-> None, message |-> ""]
                 ELSE Returns(returncode[1])
    /\ rpc' = "done"
    /\ UNCHANGED <<ctor, runner, call, spawnCalls, child, exitStatus, returncode,
                   timerExpired, timedOut, killCalls, pipesClosed, readers, closed_event,
                   transportClosed>>

\* _log_pipe: reading the pipe the main thread closed raises ValueError, the thread ends.
\* A thread that is inside readline() when the pipe is closed stays there for as long as
\* the read does not return, which is as long as some process has the write end open
\* and writes nothing.
LogPipeEnds(stream) ==
    /\ readers[stream] = "running"
    /\ pipesClosed
    /\ heldOpen[stream] # "yes"
    /\ readers' = [readers EXCEPT ![stream] = "finished"]
    /\ UNCHANGED <<ctor, runner, call, rpc, result, spawnCalls, child, exitStatus,
                   returncode, timerExpired, timedOut, killCalls, pipesClosed, closed_event,
                   transportClosed>>

(***************************************************************************)
(* The concurrent engine: SdcccRunnerAsync.run, one action per resumption   *)
(* of the task, and the event loop's callback                               *)
(***************************************************************************)

\* transport, protocol = await loop.subprocess_exec(...): the child starts, or the
\* call raises OSError
SubprocessExec ==
    /\ rpc = "spawn"
    /\ IsConcurrent
    /\ spawnCalls' = spawnCalls + 1
    /\ \E started \in BOOLEAN :
          IF started
          THEN /\ child' = "running"
               /\ rpc' = "await_closed"
               /\ UNCHANGED result
          ELSE /\ result' = Raises("OSError", "the executable could not be started")
               /\ rpc' = "done"
               /\ UNCHANGED child
    /\ UNCHANGED <<ctor, runner, call, exitStatus, returncode, timerExpired, timedOut,
                   killCalls, pipesClosed, readers, closed_event, transportClosed>>

\* Mutant of connection_lost: a transport that was closed never reports the loss.
connection_lost_NotAfterClose ==
    /\ IsConcurrent
    /\ child = "exited"
    /\ ~closed_event
    /\ ~transportClosed
    /\ \A s \in Streams : delivered[s] = written[s]
    /\ returncode' = exitStatus
    /\ closed_event' = TRUE
    /\ UNCHANGED <<ctor, runner, call, rpc, result, spawnCalls, child, exitStatus,
                   timerExpired, timedOut, killCalls, pipesClosed, readers, transportClosed>>

\* The loop has seen the child terminate and its pipes disconnect (read to the end, or
\* closed by transport.close()): the transport takes the exit status, calls
\* protocol.connection_lost(None) and drops its process.
connection_lost ==
    /\ IsConcurrent
    /\ child = "exited"
    /\ ~closed_event
    /\ transportClosed \/ \A s \in Streams : delivered[s] = written[s]
    /\ returncode' = exitStatus
    /\ closed_event' = TRUE
    /\ UNCHANGED <<ctor, runner, call, rpc, result, spawnCalls, child, exitStatus,
                   timerExpired, timedOut, killCalls, pipesClosed, readers, transportClosed>>

\* Mutant of ReturnCodeOrError: a non-zero return code is raised as an error.
ReturnCodeRaisesOnFailure(rc) ==
    IF rc = None THEN Raises("RuntimeError", "Process did not exit")
    ELSE IF rc[1] # 0 THEN Raises("CalledProcessError", "")
    ELSE Returns(rc[1])

\* return_code = transport.get_returncode(); RuntimeError if it is None
ReturnCodeOrError(rc) ==
    IF rc = None THEN Raises("RuntimeError", "Process did not exit") ELSE Returns(rc[1])

\* Mutant of AwaitClosedReturns: run does not wait for closed_event.
AwaitClosedReturnsWithoutWaiting ==
    /\ rpc = "await_closed"
    /\ result' = Returns(0)
    /\ rpc' = "done"
    /\ UNCHANGED <<ctor, runner, call, spawnCalls, child, exitStatus, returncode,
                   timerExpired, timedOut, killCalls, pipesClosed, readers, closed_event,
                   transportClosed>>

\* wait_for(protocol.closed_event.wait(), timeout) returns; finally: transport.close();
\* the second wait finds the event set; the return code is returned
AwaitClosedReturns ==
    /\ rpc = "await_closed"
    /\ closed_event
    /\ transportClosed' = TRUE
    /\ result' = ReturnCodeOrError(returncode)
    /\ rpc' = "done"
    /\ UNCHANGED <<ctor, runner, call, spawnCalls, child, exitStatus, returncode,
                   timerExpired, timedOut, killCalls, pipesClosed, readers, closed_event>>

\* The timeout of wait_for fires before the event is set: the wait is cancelled and
\* the task is scheduled to resume with TimeoutError.
AwaitClosedTimeout ==
    /\ rpc = "await_closed"
    /\ timerExpired
    /\ ~closed_event
    /\ timedOut' = TRUE
    /\ rpc' = "kill"
    /\ UNCHANGED <<ctor, runner, call, result, spawnCalls, child, exitStatus, returncode,
                   timerExpired, killCalls, pipesClosed, readers, closed_event,
                   transportClosed>>

\* The task resumes. except TimeoutError: transport.kill(), which raises
\* ProcessLookupError when connection_lost has run meanwhile (the transport holds no
\* process any more); finally: transport.close(); then the second wait begins.
TransportKill ==
    /\ rpc = "kill"
    /\ IsConcurrent
    /\ killCalls' = killCalls + 1
    /\ transportClosed' = TRUE
    /\ IF closed_event
       THEN /\ result' = Raises("ProcessLookupError", "")
            /\ rpc' = "done"
            /\ UNCHANGED <<child, exitStatus>>
       ELSE /\ IF child = "running"
               THEN /\ child' = "exited"
                    /\ \E code \in KilledExitCodes : exitStatus' = <<code>>
               ELSE UNCHANGED <<child, exitStatus>>
            /\ rpc' = "await_closed_again"
            /\ UNCHANGED result
    /\ UNCHANGED <<ctor, runner, call, spawnCalls, returncode, timerExpired, timedOut,
                   pipesClosed, readers, closed_event>>

\* await protocol.closed_event.wait() returns after the kill; the return code is returned
AwaitClosedAgainReturns ==
    /\ rpc = "await_closed_again"
    /\ closed_event
    /\ result' = ReturnCodeOrError(returncode)
    /\ rpc' = "done"
    /\ UNCHANGED <<ctor, runner, call, spawnCalls, child, exitStatus, returncode,
                   timerExpired, timedOut, killCalls, pipesClosed, readers, closed_event,
                   transportClosed>>

\* Mutant of CancelAwaitClosed: no finally clause, the transport stays open.
CancelAwaitClosedWithoutClose ==
    /\ rpc = "await_closed"
    /\ result' = Raises("CancelledError", "")
    /\ rpc' = "done"
    /\ UNCHANGED <<ctor, runner, call, spawnCalls, child, exitStatus, returncode,
                   timerExpired, timedOut, killCalls, pipesClosed, readers, closed_event,
                   transportClosed>>

\* The caller cancels the task while it is suspended in the first wait: CancelledError
\* is no TimeoutError, so only finally: transport.close() runs, which kills a child
\* that is still running, and the error leaves run.
CancelAwaitClosed ==
    /\ rpc = "await_closed"
    /\ transportClosed' = TRUE
    /\ IF child = "running"
       THEN /\ child' = "exited"
            /\ \E code \in KilledExitCodes : exitStatus' = <<code>>
       ELSE UNCHANGED <<child, exitStatus>>
    /\ result' = Raises("CancelledError", "")
    /\ rpc' = "done"
    /\ UNCHANGED <<ctor, runner, call, spawnCalls, returncode, timerExpired, timedOut,
                   killCalls, pipesClosed, readers, closed_event>>

\* The caller cancels the task while it is suspended in the second wait.
CancelAwaitClosedAgain ==
    /\ rpc = "await_closed_again"
    /\ result' = Raises("CancelledError", "")
    /\ rpc' = "done"
    /\ UNCHANGED <<ctor, runner, call, spawnCalls, child, exitStatus, returncode,
                   timerExpired, timedOut, killCalls, pipesClosed, readers, closed_event,
                   transportClosed>>

(***************************************************************************)
(* The runner specification                                                 *)
(***************************************************************************)

\* No check_requirements call is in progress.
NoValidation ==
    /\ provided = <<>>
    /\ available = <<>>
    /\ pc = "idle"
    /\ si = 1
    /\ ri = 0
    /\ provided_enabled = <<>>
    /\ available_enabled = {}
    /\ error = NoError
    /\ examined = <<>>
    /\ prev = NoPrev

InitRun == NoRunnerYet /\ NoValidation /\ NoOutput /\ NoCommand /\ NoRest

NextRun ==
    \/ Construct /\ UNCHANGED notRunVars
    \/ CallRun /\ UNCHANGED notRunVars
    \/ PrepareExecutionCommand /\ UNCHANGED notRunVars
    \/ ChildExits /\ UNCHANGED notRunVars
    \/ TimerExpires /\ UNCHANGED notRunVars
    \/ Popen /\ UNCHANGED notRunVars
    \/ StartReaders /\ UNCHANGED notRunVars
    \/ WaitReturns /\ UNCHANGED notRunVars
    \/ WaitTimeoutExpired /\ UNCHANGED notRunVars
    \/ Kill /\ UNCHANGED notRunVars
    \/ ClosePipes /\ UNCHANGED notRunVars
    \/ PopenExit /\ UNCHANGED notRunVars
    \/ JoinAndReturn /\ UNCHANGED notRunVars
    \/ \E stream \in Streams : LogPipeEnds(stream) /\ UNCHANGED notRunVars
    \/ SubprocessExec /\ UNCHANGED notRunVars
    \/ connection_lost /\ UNCHANGED notRunVars
    \/ AwaitClosedReturns /\ UNCHANGED notRunVars
    \/ AwaitClosedTimeout /\ UNCHANGED notRunVars
    \/ TransportKill /\ UNCHANGED notRunVars
    \/ AwaitClosedAgainReturns /\ UNCHANGED notRunVars
    \/ CancelAwaitClosed /\ UNCHANGED notRunVars
    \/ CancelAwaitClosedAgain /\ UNCHANGED notRunVars

SpecRun == InitRun /\ [][NextRun]_vars

\* The event loop runs the callbacks that are ready and resumes the task when what it
\* awaits is done.
SpecRunFair ==
    /\ SpecRun
    /\ WF_vars(connection_lost /\ UNCHANGED notRunVars)
    /\ WF_vars(TransportKill /\ UNCHANGED notRunVars)
    /\ WF_vars(AwaitClosedAgainReturns /\ UNCHANGED notRunVars)

(***************************************************************************)
(* The blocking engine with a child that starts processes of its own: they  *)
(* inherit the child's stdout and stderr                                    *)
(***************************************************************************)

InitBlocking ==
    /\ NoRunnerYet /\ NoValidation /\ NoOutput /\ NoCommand
    /\ NoInvocation /\ NoResolution /\ NoParse /\ NoVersionQuery /\ NoAccess /\ NoComparison
    /\ NoDownloadCheck /\ NoCwd /\ NoRedirects
    /\ heldOpen \in [Streams -> {"no", "yes"}]

\* The descendant writes to the pipe or closes its end (at the latest when it exits):
\* the read of the thread waiting on this pipe returns.
DescendantLetsGo(stream) ==
    /\ heldOpen[stream] = "yes"
    /\ child = "exited"
    /\ heldOpen' = [heldOpen EXCEPT ![stream] = "released"]

notPtVars ==
    <<reqVars, runVars, outVars, cmdVars, ivVars, exVars, prVars, gvVars, acVars, eqVars,
      dlVars, cwVars, rdVars>>

NextBlocking ==
    \/ Construct /\ UNCHANGED notRunVars
    \/ CallRun /\ UNCHANGED notRunVars
    \/ PrepareExecutionCommand /\ UNCHANGED notRunVars
    \/ ChildExits /\ UNCHANGED notRunVars
    \/ TimerExpires /\ UNCHANGED notRunVars
    \/ Popen /\ UNCHANGED notRunVars
    \/ StartReaders /\ UNCHANGED notRunVars
    \/ WaitReturns /\ UNCHANGED notRunVars
    \/ WaitTimeoutExpired /\ UNCHANGED notRunVars
    \/ Kill /\ UNCHANGED notRunVars
    \/ ClosePipes /\ UNCHANGED notRunVars
    \/ PopenExit /\ UNCHANGED notRunVars
    \/ JoinAndReturn /\ UNCHANGED notRunVars
    \/ \E stream \in Streams : LogPipeEnds(stream) /\ UNCHANGED notRunVars
    \/ \E stream \in Streams : DescendantLetsGo(stream) /\ UNCHANGED notPtVars

SpecBlocking == InitBlocking /\ [][NextBlocking]_vars

\* The main thread goes on whenever its next statement can run, and so does a reader
\* thread; nothing is assumed about the processes the child has started.
SpecBlockingFair ==
    /\ SpecBlocking
    /\ WF_vars(StartReaders /\ UNCHANGED notRunVars)
    /\ WF_vars(WaitReturns /\ UNCHANGED notRunVars)
    /\ WF_vars(Kill /\ UNCHANGED notRunVars)
    /\ WF_vars(ClosePipes /\ UNCHANGED notRunVars)
    /\ WF_vars(PopenExit /\ UNCHANGED notRunVars)
    /\ WF_vars(JoinAndReturn /\ UNCHANGED notRunVars)
    /\ \A stream \in Streams : WF_vars(LogPipeEnds(stream) /\ UNCHANGED notRunVars)

(***************************************************************************)
(* The child's output: the two pipes, the reader threads of the blocking   *)
(* engine and the protocol callback of the concurrent engine. Line k of a  *)
(* stream is the number k; an entry of the log is the text handed to one    *)
(* call of logger.info or logger.error.                                     *)
(***************************************************************************)

\* The most lines the child writes to one stream.
MaxLines == 2
\* The most empty entries one reader thread is followed through.
MaxEmptyEntries == 1

\* threading.Thread(target=_log_pipe, args=(proc.stdout, logger.info)) and
\* args=(proc.stderr, logger.error)
LogMethod(stream) == IF stream = "stdout" THEN "info" ELSE "error"

\* The file descriptors pipe_data_received is called with; the transport holds the
\* child's stdout as 1 and its stderr as 2.
Fds == {1, 2, 3}
FdStream(fd) == IF fd = 1 THEN "stdout" ELSE "stderr"

Entry(level, stream, text) == [level |-> level, stream |-> stream, text |-> text]

\* The lines a+1 .. b of a stream
LinesAfter(a, b) == [i \in 1..(b - a) |-> a + i]

EmptyEntries(stream) ==
    Cardinality({i \in DOMAIN log : log[i].stream = stream /\ log[i].text = <<>>})

\* The child writes one more line to a stream.
ChildWrites(stream) ==
    /\ child = "running"
    /\ written[stream] < MaxLines
    /\ written' = [written EXCEPT ![stream] = @ + 1]
    /\ UNCHANGED <<delivered, log, protocolError>>
    /\ UNCHANGED runVars

\* Mutant of ReaderLogsLine: the reader hands over the newest line of the pipe.
ReaderLogsNewestLine(stream) ==
    /\ readers[stream] = "running"
    /\ ~pipesClosed
    /\ delivered[stream] < written[stream]
    /\ delivered' = [delivered EXCEPT ![stream] = @ + 1]
    /\ log' = Append(log, Entry(LogMethod(stream), stream, <<written[stream]>>))
    /\ UNCHANGED <<written, protocolError>>
    /\ UNCHANGED runVars

\* _log_pipe: pipe.readline() returns the next line, log_method(line.rstrip())
ReaderLogsLine(stream) ==
    /\ readers[stream] = "running"
    /\ ~pipesClosed
    /\ delivered[stream] < written[stream]
    /\ delivered' = [delivered EXCEPT ![stream] = @ + 1]
    /\ log' = Append(log, Entry(LogMethod(stream), stream, <<delivered[stream] + 1>>))
    /\ UNCHANGED <<written, protocolError>>
    /\ UNCHANGED runVars

\* _log_pipe at the end of the stream: the pipe is a text stream, readline() returns ''
\* which is not the sentinel b"", so the loop goes on and logs the empty string
ReaderLogsEmpty(stream) ==
    /\ readers[stream] = "running"
    /\ ~pipesClosed
    /\ child = "exited"
    /\ delivered[stream] = written[stream]
    /\ EmptyEntries(stream) < MaxEmptyEntries
    /\ log' = Append(log, Entry(LogMethod(stream), stream, <<>>))
    /\ UNCHANGED <<written, delivered, protocolError>>
    /\ UNCHANGED runVars

\* Mutant of pipe_data_received: the two levels are swapped.
pipe_data_received_Crossed(fd) ==
    /\ IsConcurrent
    /\ child # "none"
    /\ ~transportClosed
    /\ ~closed_event
    /\ IF fd \in {1, 2}
       THEN /\ delivered[FdStream(fd)] < written[FdStream(fd)]
            /\ \E upto \in (delivered[FdStream(fd)] + 1)..written[FdStream(fd)] :
                  /\ log' = Append(log, Entry(IF fd = 1 THEN "error" ELSE "info",
                                              FdStream(fd),
                                              LinesAfter(delivered[FdStream(fd)], upto)))
                  /\ delivered' = [delivered EXCEPT ![FdStream(fd)] = upto]
            /\ UNCHANGED protocolError
       ELSE /\ protocolError = "none"
            /\ protocolError' = "RuntimeError"
            /\ UNCHANGED <<delivered, log>>
    /\ UNCHANGED written
    /\ UNCHANGED runVars

\* _SdcccSubprocessProtocol.pipe_data_received(fd, data): data is what the pipe held
\* when the loop read it, one line or several
pipe_data_received(fd) ==
    /\ IsConcurrent
    /\ child # "none"
    /\ ~transportClosed
    /\ ~closed_event
    /\ IF fd \in {1, 2}
       THEN /\ delivered[FdStream(fd)] < written[FdStream(fd)]
            /\ \E upto \in (delivered[FdStream(fd)] + 1)..written[FdStream(fd)] :
                  /\ log' = Append(log, Entry(IF fd = 1 THEN "info" ELSE "error",
                                              FdStream(fd),
                                              LinesAfter(delivered[FdStream(fd)], upto)))
                  /\ delivered' = [delivered EXCEPT ![FdStream(fd)] = upto]
            /\ UNCHANGED protocolError
       ELSE /\ protocolError = "none"
            /\ protocolError' = "RuntimeError"
            /\ UNCHANGED <<delivered, log>>
    /\ UNCHANGED written
    /\ UNCHANGED runVars

\* A run that passed _prepare_execution_command, about to start the child.
InitOutput ==
    /\ NoValidation
    /\ NoCommand
    /\ NoOutput
    /\ NoRest
    /\ ctor = [called |-> TRUE,
               exe |-> [given |-> TRUE, absolute |-> TRUE, kind |-> "file", name |-> "sdccc.exe"],
               test_run_dir |-> [absolute |-> TRUE, kind |-> "dir", empty |-> TRUE],
               storage |-> StorageNotRead, error |-> "none", message |-> ""]
    /\ runner = [exists |-> TRUE, exe |-> ctor.exe, test_run_dir |-> ctor.test_run_dir]
    /\ \E variant \in Variants, timeout \in Timeouts :
          call = [called |-> TRUE, variant |-> variant,
                  config |-> [absolute |-> TRUE, exists |-> TRUE],
                  requirements |-> [absolute |-> TRUE, exists |-> TRUE],
                  timeout |-> timeout]
    /\ rpc = "spawn"
    /\ result = NoResult
    /\ spawnCalls = 0
    /\ child = "none"
    /\ exitStatus = None
    /\ returncode = None
    /\ timerExpired = FALSE
    /\ timedOut = FALSE
    /\ killCalls = 0
    /\ pipesClosed = FALSE
    /\ readers = [s \in Streams |-> "unstarted"]
    /\ closed_event = FALSE
    /\ transportClosed = FALSE

NextOutput ==
    \/ ChildExits /\ UNCHANGED notRunVars
    \/ TimerExpires /\ UNCHANGED notRunVars
    \/ Popen /\ UNCHANGED notRunVars
    \/ StartReaders /\ UNCHANGED notRunVars
    \/ WaitReturns /\ UNCHANGED notRunVars
    \/ WaitTimeoutExpired /\ UNCHANGED notRunVars
    \/ Kill /\ UNCHANGED notRunVars
    \/ ClosePipes /\ UNCHANGED notRunVars
    \/ PopenExit /\ UNCHANGED notRunVars
    \/ JoinAndReturn /\ UNCHANGED notRunVars
    \/ \E stream \in Streams : LogPipeEnds(stream) /\ UNCHANGED notRunVars
    \/ SubprocessExec /\ UNCHANGED notRunVars
    \/ connection_lost /\ UNCHANGED notRunVars
    \/ AwaitClosedReturns /\ UNCHANGED notRunVars
    \/ AwaitClosedTimeout /\ UNCHANGED notRunVars
    \/ TransportKill /\ UNCHANGED notRunVars
    \/ AwaitClosedAgainReturns /\ UNCHANGED notRunVars
    \/ CancelAwaitClosed /\ UNCHANGED notRunVars
    \/ CancelAwaitClosedAgain /\ UNCHANGED notRunVars
    \/ \E stream \in Streams : ChildWrites(stream) /\ UNCHANGED <<reqVars, cmdVars, restVars>>
    \/ \E stream \in Streams : ReaderLogsLine(stream) /\ UNCHANGED <<reqVars, cmdVars, restVars>>
    \/ \E stream \in Streams : ReaderLogsEmpty(stream) /\ UNCHANGED <<reqVars, cmdVars, restVars>>
    \/ \E fd \in Fds : pipe_data_received(fd) /\ UNCHANGED <<reqVars, cmdVars, restVars>>

SpecOutput == InitOutput /\ [][NextOutput]_vars

(***************************************************************************)
(* Properties of the runner                                                 *)
(***************************************************************************)

RunDone == rpc = "done"

\* C6 as stated: a run whose test-run directory is not empty (its paths being fine)
\* fails with a directory-not-empty error and never invokes the process spawn.
C6_NonEmptyDirectoryRejected ==
    (/\ call.called
     /\ call.config.absolute
     /\ call.requirements.absolute
     /\ ~runner.test_run_dir.empty)
        => /\ spawnCalls = 0
           /\ RunDone => result.kind = "DirectoryNotEmptyError"

\* C7: a non-absolute config path, or else a non-absolute requirements path, makes run
\* raise ValueError (config first) with no spawn; the child is spawned at most once
\* per run and only after both checks passed.
C7_ValidationBeforeSpawn ==
    /\ spawnCalls <= 1
    /\ spawnCalls > 0 =>
          /\ call.called
          /\ call.config.absolute
          /\ call.requirements.absolute
          /\ rpc \notin {"no_runner", "idle", "prepare", "spawn"}
    /\ (RunDone /\ ~call.config.absolute) =>
          /\ result = Raises("ValueError", "Path to config file must be absolute")
          /\ spawnCalls = 0
    /\ (RunDone /\ call.config.absolute /\ ~call.requirements.absolute) =>
          /\ result = Raises("ValueError", "Path to requirements file must be absolute")
          /\ spawnCalls = 0
    /\ (RunDone /\ result.kind = "ValueError") =>
          (~call.config.absolute \/ ~call.requirements.absolute)

C7_Witness ==
    /\ RunDone
    /\ call.config.absolute
    /\ ~call.requirements.absolute
    /\ result = Raises("ValueError", "Path to requirements file must be absolute")
    /\ spawnCalls = 0

\* C8 as stated: a config or requirements path that is absolute but does not exist is
\* rejected with a path error, and no child is spawned.
C8_MissingPathRejected ==
    (/\ call.called
     /\ call.config.absolute
     /\ call.requirements.absolute
     /\ (~call.config.exists \/ ~call.requirements.exists))
        => /\ spawnCalls = 0
           /\ RunDone => result.kind \in {"ValueError", "FileNotFoundError"}

\* The storage directory holds exactly one regular file ending in .exe.
DefaultResolves(storage) == Cardinality({n \in StorageNames : storage[n] = "file"}) = 1

RunState ==
    IF result.kind = "OSError" THEN "LaunchFailed"
    ELSE IF rpc \in {"no_runner", "idle", "prepare", "spawn"} \/ result.kind = "ValueError"
    THEN "NotStarted"
    ELSE IF rpc \in {"start_readers", "wait", "await_closed"} THEN "Running"
    ELSE IF rpc = "kill" THEN "TimedOut"
    ELSE IF result.kind \notin {"none", "int"} THEN "Aborted"
    ELSE IF timedOut /\ rpc \in {"close_pipes", "popen_exit", "await_closed_again"}
    THEN "Killed"
    ELSE "Completed"

RunTransitions ==
    {<<"NotStarted", "Running">>, <<"NotStarted", "LaunchFailed">>,
     <<"Running", "LaunchFailed">>, <<"Running", "Completed">>, <<"Running", "TimedOut">>,
     <<"TimedOut", "Killed">>, <<"Killed", "Completed">>}

\* C10 as stated: every process run follows NotStarted -> Running -> {Completed |
\* TimedOut -> Killed -> Completed | LaunchFailed} (the launch failing at the spawn):
\* no other transition occurs, TimedOut is entered only from Running after the timeout
\* expired, Killed only from TimedOut, Completed and LaunchFailed are terminal.
\* (A step in which the caller cancels the task is not a step of the state machine.)
C10_RunStateMachine ==
    [][\/ result'.kind = "CancelledError"
       \/ /\ RunState' # RunState => <<RunState, RunState'>> \in RunTransitions
          /\ (RunState' = "TimedOut" /\ RunState # "TimedOut") =>
                (RunState = "Running" /\ timerExpired /\ call.timeout = "finite")
          /\ RunState' = "Completed" => returncode' # None]_vars

\* C11 as stated: a run whose timeout expired ends in a timeout error (blocking: raised,
\* concurrent: timeout outcome) and never returns an integer exit code.
C11_TimedOutRunRaises ==
    (RunDone /\ timedOut) => (result.kind = "TimeoutError" /\ result.kind # "int")

C13_OwnExitCodeReturned ==
    (/\ RunDone
     /\ child = "exited"
     /\ ~timedOut
     /\ killCalls = 0
     /\ result.kind # "CancelledError")
        => result = Returns(exitStatus[1])

C13_Witness ==
    /\ RunDone
    /\ IsConcurrent
    /\ ~timedOut
    /\ exitStatus = <<1>>
    /\ result = Returns(1)

\* C14: a launch that fails ends the run in an error and never in an integer exit code;
\* after it no reader thread is started and the child is neither waited for nor killed.
C14_LaunchFailureIsAnError ==
    /\ result.kind = "OSError" =>
          /\ RunDone
          /\ child = "none"
          /\ \A s \in Streams : readers[s] = "unstarted"
          /\ killCalls = 0
          /\ returncode = None
          /\ ~pipesClosed
          /\ ~closed_event
          /\ ~transportClosed
    /\ (RunDone /\ spawnCalls > 0 /\ child = "none") => result.kind = "OSError"
    /\ result.kind = "int" => child = "exited"

C14_Witness ==
    /\ RunDone
    /\ IsBlocking
    /\ spawnCalls = 1
    /\ result.kind = "OSError"

\* C16: in the concurrent variant the second wait on closed_event, after a timeout led
\* to the kill, does not block for ever: every timed-out run eventually returns or
\* raises, and a run that finds no return code raises RuntimeError, never an exit code.
C16_SecondWaitEnds ==
    /\ (IsConcurrent /\ timedOut) ~> RunDone
    /\ [](rpc = "await_closed_again" => (child = "exited" /\ transportClosed))
    /\ []((RunDone /\ IsConcurrent /\ returncode = None) => result.kind # "int")

C16_Witness ==
    /\ RunDone
    /\ IsConcurrent
    /\ timedOut
    /\ killCalls = 1
    /\ closed_event
    /\ result = Returns(-9)

(***************************************************************************)
(* Properties of the logged output                                          *)
(***************************************************************************)

RECURSIVE LoggedLines(_, _)
\* The lines of a stream in the first n entries of the log, in the order logged
LoggedLines(stream, n) ==
    IF n = 0 THEN <<>>
    ELSE IF log[n].stream = stream
    THEN LoggedLines(stream, n - 1) \o log[n].text
    ELSE LoggedLines(stream, n - 1)

\* C15 as stated: when the blocking _run_sdccc returns, every line the child wrote to
\* stdout or stderr before it terminated has been handed to the logging sink.
C15_NoLineLostAtReturn ==
    (RunDone /\ IsBlocking /\ result.kind = "int") =>
        \A s \in Streams : LoggedLines(s, Len(log)) = LinesAfter(0, written[s])

\* C17: in both variants the lines of one stream reach the logging sink in the order
\* the child wrote them, none twice and none the child did not write; stdout and
\* stderr entries interleave freely.
C17_OrderedPerStream ==
    \A s \in Streams :
        LET logged == LoggedLines(s, Len(log))
        IN  /\ \A i \in DOMAIN logged : logged[i] \in 1..written[s]
            /\ \A i, j \in DOMAIN logged : i < j => logged[i] < logged[j]

C17_Witness ==
    /\ IsBlocking
    /\ Len(log) = 4
    /\ log[1].stream = "stderr"
    /\ log[4].stream = "stderr"
    /\ LoggedLines("stdout", 4) = <<1, 2>>
    /\ LoggedLines("stderr", 4) = <<1, 2>>

\* C18: every entry logged at info level comes from the child's stdout and every entry
\* logged at error level from its stderr, in both variants; data on a file descriptor
\* other than 1 and 2 raises RuntimeError and is not logged.
C18_RoutingNotCrossed ==
    /\ [](\A i \in DOMAIN log :
             /\ log[i].level \in {"info", "error"}
             /\ log[i].level = "info" <=> log[i].stream = "stdout"
             /\ log[i].level = "error" <=> log[i].stream = "stderr")
    /\ [](protocolError \in {"none", "RuntimeError"})
    /\ [][protocolError' # protocolError => log' = log]_vars

C18_Witness ==
    /\ IsConcurrent
    /\ protocolError = "RuntimeError"
    /\ \E i, j \in DOMAIN log :
          /\ log[i] = Entry("info", "stdout", <<1, 2>>)
          /\ log[j] = Entry("error", "stderr", <<1>>)

(***************************************************************************)
(* The command builder build_command of _common.py. A string is the        *)
(* sequence of its pieces; the pieces " " and "\"" are the blank and the    *)
(* double quote, every other piece is a run of other characters.            *)
(***************************************************************************)

\* The most positional arguments and the most keyword arguments of a call.
MaxArgs == 2
MaxFlags == 2
\* The largest integer given as a value.
MaxInt == 2

FlagNames == {"x", "y", "z"}

\* Python values: a bool is an int (True == 1, False == 0), yet True is one object.
PyTrue == [type |-> "bool", num |-> 1, text |-> <<>>]
PyFalse == [type |-> "bool", num |-> 0, text |-> <<>>]
PyNone == [type |-> "none", num |-> 0, text |-> <<>>]
PyInt(n) == [type |-> "int", num |-> n, text |-> <<>>]
PyStr(t) == [type |-> "str", num |-> 0, text |-> t]

Texts == {<<>>, <<"v">>, <<"a", " ", "b">>}
PyValues == {PyTrue, PyFalse, PyNone} \cup {PyInt(n) : n \in 0..MaxInt} \cup {PyStr(t) : t \in Texts}

\* a == b
PyEq(a, b) ==
    \/ a.type \in {"bool", "int"} /\ b.type \in {"bool", "int"} /\ a.num = b.num
    \/ a.type = "str" /\ b.type = "str" /\ a.text = b.text
    \/ a.type = "none" /\ b.type = "none"

\* value is True
IsTrue(v) == v = PyTrue

\* value in (True, False): identity or equality with one of the two
InTrueFalse(v) == PyEq(v, PyTrue) \/ PyEq(v, PyFalse)

\* f"{value}"
Str(v) ==
    IF v.type = "bool" THEN (IF v.num = 1 THEN <<"True">> ELSE <<"False">>)
    ELSE IF v.type = "int" THEN <<ToString(v.num)>>
    ELSE IF v.type = "none" THEN <<"None">>
    ELSE v.text

RECURSIVE Join(_, _)
\* sep.join(parts)
Join(sep, parts) ==
    IF parts = <<>> THEN <<>>
    ELSE IF Len(parts) = 1 THEN parts[1]
    ELSE parts[1] \o sep \o Join(sep, Tail(parts))

\* Mutant of build_command: every value that is not False is written as a value.
build_command_TrueAsValue(args, kwargs) ==
    LET IsValued(e) == ~PyEq(e.value, PyFalse)
        kv == SelectSeq(kwargs, IsValued)
        kwargs_string ==
            Join(<<" ">>, [i \in DOMAIN kv |->
                              <<"--", kv[i].name, " ", "\"">> \o Str(kv[i].value) \o <<"\"">>])
        NonEmpty(part) == part # <<>>
    IN  Join(<<" ">>, SelectSeq(args \o <<kwargs_string>>, NonEmpty))

\* build_command: the positional arguments, the true flags, the valued flags
build_command(args, kwargs) ==
    LET IsFlag(e) == IsTrue(e.value)
        IsValued(e) == ~InTrueFalse(e.value)
        fl == SelectSeq(kwargs, IsFlag)
        kv == SelectSeq(kwargs, IsValued)
        flags == Join(<<" ">>, [i \in DOMAIN fl |-> <<"--", fl[i].name>>])
        kwargs_string ==
            Join(<<" ">>, [i \in DOMAIN kv |->
                              <<"--", kv[i].name, " ", "\"">> \o Str(kv[i].value) \o <<"\"">>])
        NonEmpty(part) == part # <<>>
    IN  Join(<<" ">>, SelectSeq(args \o <<flags, kwargs_string>>, NonEmpty))

\* The positional arguments: strings, the empty one among them.
ArgLists == UNION {[1..n -> {<<"p">>, <<"q">>, <<>>}] : n \in 0..MaxArgs}

\* The keyword arguments: a dict, so no name twice, in the order given.
KwargLists ==
    UNION {{kw \in [1..n -> [name : FlagNames, value : PyValues]] :
               \A i, j \in 1..n : i # j => kw[i].name # kw[j].name} : n \in 0..MaxFlags}

InitCommand ==
    /\ NoValidation
    /\ NoRunnerYet
    /\ NoOutput
    /\ NoRest
    /\ bc_args \in ArgLists
    /\ bc_kwargs \in KwargLists
    /\ bc_built = FALSE
    /\ bc_command = <<>>

BuildCommand ==
    /\ ~bc_built
    /\ bc_command' = build_command(bc_args, bc_kwargs)
    /\ bc_built' = TRUE
    /\ UNCHANGED <<bc_args, bc_kwargs>>

NextCommand == BuildCommand /\ UNCHANGED <<reqVars, runVars, outVars, restVars>>

SpecCommand == InitCommand /\ [][NextCommand]_vars

(***************************************************************************)
(* Properties of the command builder                                        *)
(***************************************************************************)

\* The places of the command where a piece stands
Places(piece) == {i \in DOMAIN bc_command : bc_command[i] = piece}

\* The piece at a place, or the blank before the first and after the last piece
PieceAt(i) == IF i \in DOMAIN bc_command THEN bc_command[i] ELSE " "

\* The command holds the token --name once, as a whole token.
HasFlagOnce(name) ==
    /\ Cardinality(Places(name)) = 1
    /\ \A i \in Places(name) : PieceAt(i - 1) = "--" /\ PieceAt(i - 2) = " "

\* C19: a flag bound to True contributes the single token --name and no value token,
\* a flag bound to False contributes nothing; without positional arguments and with
\* False flags only the command is empty.
C19_BooleanFlags ==
    bc_built =>
        /\ \A k \in DOMAIN bc_kwargs :
              /\ bc_kwargs[k].value = PyTrue =>
                    /\ HasFlagOnce(bc_kwargs[k].name)
                    /\ \A i \in Places(bc_kwargs[k].name) :
                          /\ PieceAt(i + 1) = " "
                          /\ PieceAt(i + 2) \in {"--", " "}
              /\ bc_kwargs[k].value = PyFalse => Places(bc_kwargs[k].name) = {}
        /\ (/\ \A a \in DOMAIN bc_args : bc_args[a] = <<>>
            /\ \A k \in DOMAIN bc_kwargs : bc_kwargs[k].value = PyFalse)
              => bc_command = <<>>

C19_Witness ==
    /\ bc_built
    /\ bc_args = <<>>
    /\ Len(bc_kwargs) = 2
    /\ bc_kwargs[1] = [name |-> "x", value |-> PyFalse]
    /\ bc_kwargs[2] = [name |-> "y", value |-> PyTrue]
    /\ bc_command = <<"--", "y">>

\* C20 as stated: every flag whose value is neither True nor False, the integers 0 and
\* 1, the empty string and None among them, contributes --name followed by the string
\* of the value, and the command holds as many --name tokens as there are flags that
\* are not False.
C20_ValuedFlags ==
    bc_built =>
        /\ \A k \in DOMAIN bc_kwargs :
              bc_kwargs[k].value.type # "bool" =>
                 /\ HasFlagOnce(bc_kwargs[k].name)
                 /\ \A i \in Places(bc_kwargs[k].name) :
                       LET repr == Str(bc_kwargs[k].value)
                       IN  /\ PieceAt(i + 1) = " "
                           /\ PieceAt(i + 2) = "\""
                           /\ \A j \in DOMAIN repr : PieceAt(i + 2 + j) = repr[j]
                           /\ PieceAt(i + 3 + Len(repr)) = "\""
        /\ Cardinality(Places("--"))
              = Cardinality({k \in DOMAIN bc_kwargs : bc_kwargs[k].value # PyFalse})

\* The positional arguments that are not the empty string
GivenArgs == LET NonEmpty(part) == part # <<>> IN SelectSeq(bc_args, NonEmpty)

\* C21 as stated: the positional arguments stand first, in the order given, and the
\* flags follow in the iteration order of the keyword arguments, boolean and valued
\* flags interleaved as they are in the map.
C21_ArgumentOrder ==
    bc_built =>
        /\ SubSeq(bc_command, 1, Len(Join(<<" ">>, GivenArgs))) = Join(<<" ">>, GivenArgs)
        /\ \A i \in Places("p") \cup Places("q"), j \in Places("--") : i < j
        /\ \A k1, k2 \in DOMAIN bc_kwargs :
              k1 < k2 =>
                 \A i \in Places(bc_kwargs[k1].name), j \in Places(bc_kwargs[k2].name) : i < j

(***************************************************************************)
(* The command run hands to the child: _prepare_execution_command and the   *)
(* spawn of _runner.py, run and _run_sdccc of the legacy module runner.py.  *)
(***************************************************************************)

\* The most extra flags of a call of run.
MaxExtra == 2

FixedFlagNames == {"no_subdirectories", "test_run_directory", "config", "testconfig"}

\* The names an extra flag can have: config is a parameter of run, so a keyword of that
\* name never reaches kwargs.
ExtraNames == {"no_subdirectories", "test_run_directory", "testconfig", "x"}
ExtraValues == {PyStr(<<"v">>), PyStr(<<"a", " ", "b">>)}

ExtraFlagMaps ==
    UNION {{kw \in [1..n -> [name : ExtraNames, value : ExtraValues]] :
               \A i, j \in 1..n : i # j => kw[i].name # kw[j].name} : n \in 0..MaxExtra}

\* self.exe, and the paths given: without and with a blank in them
ExePath == <<"/bin/sdccc.exe">>
TestRunDirs == {<<"/run">>, <<"/my", " ", "run">>}
ConfigPaths == {<<"/c.toml">>, <<"/a", " ", "b/c.toml">>}
RequirementsPaths == {<<"/r.toml">>, <<"/a", " ", "b/r.toml">>}

\* The runner classes: the two of _runner.py and the one of runner.py
RunnerClasses ==
    {[module |-> "_runner", variant |-> "SdcccRunner"],
     [module |-> "_runner", variant |-> "SdcccRunnerAsync"],
     [module |-> "runner", variant |-> "SdcccRunner"]}

\* kwargs[name] = value: a key the dict holds keeps its place
DictSet(d, name, value) ==
    IF \E i \in DOMAIN d : d[i].name = name
    THEN [i \in DOMAIN d |-> IF d[i].name = name THEN [name |-> name, value |-> value] ELSE d[i]]
    ELSE Append(d, [name |-> name, value |-> value])

\* " ".join(f"--{arg} {value}" for arg, value in kwargs.items())
FlagString(kwargs) ==
    Join(<<" ">>, [i \in DOMAIN kwargs |-> <<"--", kwargs[i].name, " ">> \o Str(kwargs[i].value)])

\* The kwargs of _prepare_execution_command after its four assignments
PreparedFlags(test_run_dir, config, requirements, extra) ==
    DictSet(DictSet(DictSet(DictSet(extra,
        "no_subdirectories", PyStr(<<"true">>)),
        "test_run_directory", PyStr(test_run_dir)),
        "config", PyStr(config)),
        "testconfig", PyStr(requirements))

\* runner.py: run passes config, testconfig and test_run_directory as keywords next to
\* the caller's kwargs (a name given twice is a TypeError), _run_sdccc then sets
\* no_subdirectories
LegacyFlags(test_run_dir, config, requirements, extra) ==
    DictSet(<<[name |-> "config", value |-> PyStr(config)],
              [name |-> "testconfig", value |-> PyStr(requirements)],
              [name |-> "test_run_directory", value |-> PyStr(test_run_dir)]>> \o extra,
            "no_subdirectories", PyStr(<<"true">>))

LegacyCollision(extra) ==
    \E i \in DOMAIN extra : extra[i].name \in {"config", "testconfig", "test_run_directory"}

RECURSIVE SplitFrom(_, _, _, _, _)
\* How the child's runtime splits the command line it is started with: blanks
\* separate the arguments, double quotes group and are dropped.
SplitFrom(line, i, current, started, quoted) ==
    IF i > Len(line) THEN (IF started THEN <<current>> ELSE <<>>)
    ELSE IF line[i] = "\"" THEN SplitFrom(line, i + 1, current, TRUE, ~quoted)
    ELSE IF line[i] = " " /\ ~quoted
    THEN (IF started THEN <<current>> ELSE <<>>) \o SplitFrom(line, i + 1, <<>>, FALSE, FALSE)
    ELSE SplitFrom(line, i + 1, Append(current, line[i]), TRUE, quoted)

SplitCommandLine(line) == SplitFrom(line, 1, <<>>, FALSE, FALSE)

\* The argument vector of the child: subprocess.Popen(f"{exe_path} {args}") hands over
\* one command line; loop.subprocess_exec(protocol, self.exe, args) hands over the
\* executable and the whole string args as one argument.
ChildArgv(variant, args) ==
    IF variant = "SdcccRunner"
    THEN SplitCommandLine(ExePath \o <<" ">> \o args)
    ELSE <<ExePath, args>>

InitInvoke ==
    /\ NoValidation
    /\ NoRunnerYet
    /\ NoOutput
    /\ NoCommand
    /\ NoResolution /\ NoParse /\ NoVersionQuery /\ NoAccess /\ NoComparison
    /\ NoLater
    /\ \E class \in RunnerClasses, test_run_dir \in TestRunDirs, config \in ConfigPaths,
          requirements \in RequirementsPaths, extra \in ExtraFlagMaps :
          iv_in = [called |-> TRUE, module |-> class.module, variant |-> class.variant,
                   test_run_dir |-> test_run_dir, config |-> config,
                   requirements |-> requirements, extra |-> extra]
    /\ iv_out = [done |-> FALSE]

\* run up to the spawn of the child
Invoke ==
    /\ iv_in.called
    /\ ~iv_out.done
    /\ iv_out' =
          IF iv_in.module = "runner" /\ LegacyCollision(iv_in.extra)
          THEN [done |-> TRUE, error |-> "TypeError", flags |-> <<>>, args |-> <<>>,
                argv |-> <<>>]
          ELSE LET flags == IF iv_in.module = "runner"
                            THEN LegacyFlags(iv_in.test_run_dir, iv_in.config,
                                             iv_in.requirements, iv_in.extra)
                            ELSE PreparedFlags(iv_in.test_run_dir, iv_in.config,
                                               iv_in.requirements, iv_in.extra)
               IN  [done |-> TRUE, error |-> "none", flags |-> flags,
                    args |-> FlagString(flags),
                    argv |-> ChildArgv(iv_in.variant, FlagString(flags))]
    /\ UNCHANGED iv_in

NextInvoke ==
    Invoke /\ UNCHANGED <<reqVars, runVars, outVars, cmdVars, exVars, prVars, gvVars, acVars, eqVars, laterVars>>

SpecInvoke == InitInvoke /\ [][NextInvoke]_vars

(***************************************************************************)
(* Properties of the command handed to the child                            *)
(***************************************************************************)

HasBlank(text) == \E i \in DOMAIN text : text[i] = " "

\* The argument vector holds --name followed by the text as one argument.
ArgvCarries(name, text) ==
    \E i \in DOMAIN iv_out.argv :
        /\ iv_out.argv[i] = <<"--", name>>
        /\ i + 1 \in DOMAIN iv_out.argv
        /\ iv_out.argv[i + 1] = text

\* C22 as stated: a flag value with a blank in it arrives at the child as one argument
\* equal to the value, in each run variant.
C22_ValueRoundTrip ==
    (iv_out.done /\ iv_out.error = "none" /\ iv_in.module = "_runner") =>
        \A k \in DOMAIN iv_out.flags :
            HasBlank(Str(iv_out.flags[k].value)) =>
                ArgvCarries(iv_out.flags[k].name, Str(iv_out.flags[k].value))

\* The places of the argument string where --name stands as a flag
FlagPlaces(name) ==
    {i \in DOMAIN iv_out.args :
        /\ iv_out.args[i] = name
        /\ i > 1
        /\ iv_out.args[i - 1] = "--"}

\* The argument string holds --name once, followed by the text.
CarriesOnce(name, text) ==
    /\ Cardinality(FlagPlaces(name)) = 1
    /\ \A i \in FlagPlaces(name) :
          /\ i + 1 + Len(text) <= Len(iv_out.args)
          /\ iv_out.args[i + 1] = " "
          /\ SubSeq(iv_out.args, i + 2, i + 1 + Len(text)) = text
          /\ i + 1 + Len(text) = Len(iv_out.args) \/ iv_out.args[i + 2 + Len(text)] = " "

EngineFlagsCarried ==
    /\ CarriesOnce("no_subdirectories", <<"true">>)
    /\ CarriesOnce("test_run_directory", iv_in.test_run_dir)
    /\ CarriesOnce("config", iv_in.config)
    /\ CarriesOnce("testconfig", iv_in.requirements)

\* C23 as stated: whatever the extra flags are, run does not fail over a collision and
\* the command carries each of the four engine flags once with the engine's value, in
\* the runner of _runner.py and in the legacy runner.
C23_EngineFlagsWin ==
    iv_out.done => (iv_out.error = "none" /\ EngineFlagsCarried)

\* C24 as stated: in the command built by run the four fixed flags stand ahead of
\* every extra flag of the caller.
C24_FixedFlagsFirst ==
    (iv_out.done /\ iv_out.error = "none" /\ iv_in.module = "_runner") =>
        \A f \in FixedFlagNames, e \in ExtraNames \ FixedFlagNames :
            \A i \in FlagPlaces(f), j \in FlagPlaces(e) : i < j

(***************************************************************************)
(* Executable resolution: get_exe_path of _runner.py and _get_exe_path of   *)
(* the legacy module runner.py, over the entries of the scanned directory.  *)
(***************************************************************************)

\* The names an entry of the directory can have, in pieces: prefix, rest, suffix.
EntryNames ==
    {<<"sdccc-", "1", ".exe">>, <<"sdccc-", "2", ".exe">>, <<"tool", ".exe">>,
     <<"readme", ".txt">>}
EntryKinds == {"absent", "file", "dir"}
Directories == [EntryNames -> EntryKinds]

\* local_path.glob(pattern) for the two patterns the resolvers use
glob(dir, pattern) ==
    {n \in EntryNames :
        /\ dir[n] # "absent"
        /\ n[Len(n)] = ".exe"
        /\ pattern = "sdccc-*.exe" => n[1] = "sdccc-"}

\* [f for f in local_path.glob(pattern) if f.is_file()]
ExeFiles(dir, pattern) == {n \in glob(dir, pattern) : dir[n] = "file"}

\* get_exe_path(local_path) of _runner.py: the message of the error holds the list
get_exe_path_in(dir) ==
    LET files == ExeFiles(dir, "*.exe")
    IN  IF ~(Cardinality(files) = 1)
        THEN [error |-> "FileNotFoundError", path |-> <<>>, named |-> files,
              message |-> "Unable to determine correct executable file, got {files} in path"]
        ELSE [error |-> "none", path |-> CHOOSE n \in files : TRUE, named |-> {},
              message |-> ""]

\* _get_exe_path(local_path) of runner.py: the message of the error holds the count
legacy_get_exe_path(dir) ==
    LET files == ExeFiles(dir, "sdccc-*.exe")
    IN  IF ~(Cardinality(files) = 1)
        THEN [error |-> "FileNotFoundError", path |-> <<>>, named |-> {},
              message |-> "Expected one exe file, got {len(files)} in path"]
        ELSE [error |-> "none", path |-> CHOOSE n \in files : TRUE, named |-> {},
              message |-> ""]

InitResolve ==
    /\ NoValidation
    /\ NoRunnerYet
    /\ NoOutput
    /\ NoCommand
    /\ NoInvocation /\ NoParse /\ NoVersionQuery /\ NoAccess /\ NoComparison
    /\ NoLater
    /\ \E resolver \in {"get_exe_path", "_get_exe_path"}, dir \in Directories :
          ex_in = [called |-> TRUE, resolver |-> resolver, dir |-> dir]
    /\ ex_out = [done |-> FALSE]

GetExePath ==
    /\ ex_in.called
    /\ ex_in.resolver = "get_exe_path"
    /\ ~ex_out.done
    /\ ex_out' = [done |-> TRUE, result |-> get_exe_path_in(ex_in.dir)]
    /\ UNCHANGED ex_in

LegacyGetExePath ==
    /\ ex_in.called
    /\ ex_in.resolver = "_get_exe_path"
    /\ ~ex_out.done
    /\ ex_out' = [done |-> TRUE, result |-> legacy_get_exe_path(ex_in.dir)]
    /\ UNCHANGED ex_in

NextResolve ==
    \/ GetExePath /\ UNCHANGED <<reqVars, runVars, outVars, cmdVars, ivVars, prVars, gvVars, acVars, eqVars, laterVars>>
    \/ LegacyGetExePath /\ UNCHANGED <<reqVars, runVars, outVars, cmdVars, ivVars, prVars, gvVars, acVars, eqVars, laterVars>>

SpecResolve == InitResolve /\ [][NextResolve]_vars

\* The regular files of the scanned directory named by the convention sdccc-*.exe
ConventionMatches ==
    {n \in EntryNames : ex_in.dir[n] = "file" /\ n[1] = "sdccc-" /\ n[Len(n)] = ".exe"}

\* C25 as stated: resolution returns a path exactly when one regular file of the
\* directory matches sdccc-*.exe, and then that file; otherwise it raises
\* FileNotFoundError; entries that do not match the convention change nothing.
C25_ExactlyOneMatch ==
    ex_out.done =>
        /\ ex_out.result.error \in {"none", "FileNotFoundError"}
        /\ ex_out.result.error = "none" <=> Cardinality(ConventionMatches) = 1
        /\ ex_out.result.error = "none" => ex_out.result.path \in ConventionMatches

\* C26 as stated: with two files matching the naming pattern, the error of each
\* resolver names both files.
C26_AmbiguityNamesBoth ==
    (ex_out.done /\ Cardinality(ConventionMatches) = 2) =>
        /\ ex_out.result.error = "FileNotFoundError"
        /\ ConventionMatches \subseteq ex_out.result.named

(***************************************************************************)
(* What run returns, and parse_results over the report files of the         *)
(* test-run directory.  TestSuite.from_file is in _result_parser.py, which  *)
(* is not among the sources: it is modelled as the specification words it.  *)
(***************************************************************************)

ReportStates == {"absent", "wellformed", "malformed"}

\* TestSuite.from_file(path): no suite for a missing file, the parse error for a
\* malformed one
from_file(report, suite) ==
    IF report = "absent" THEN [error |-> "none", suite |-> "None"]
    ELSE IF report = "malformed" THEN [error |-> "ParseError", suite |-> "None"]
    ELSE [error |-> "none", suite |-> suite]

\* parse_results(test_artifacts_directory): the direct report first, then the
\* invariant report
parse_results(direct, invariant) ==
    LET d == from_file(direct, "direct_suite")
        i == from_file(invariant, "invariant_suite")
    IN  IF d.error # "none" THEN [error |-> d.error, direct |-> "None", invariant |-> "None"]
        ELSE IF i.error # "none" THEN [error |-> i.error, direct |-> "None", invariant |-> "None"]
        ELSE [error |-> "none", direct |-> d.suite, invariant |-> i.suite]

\* The value of SdcccRunner.run and of SdcccRunnerAsync.run for a child that exited
\* in time: the exit code, an int
RunValue(exit_code) ==
    [kind |-> "int", exit_code |-> exit_code, direct |-> "no member", invariant |-> "no member"]

NotReturned ==
    [kind |-> "nothing", exit_code |-> 0, direct |-> "no member", invariant |-> "no member"]
NotParsed == [error |-> "not called", direct |-> "None", invariant |-> "None"]

InitResults ==
    /\ NoValidation
    /\ NoRunnerYet
    /\ NoOutput
    /\ NoCommand
    /\ NoInvocation /\ NoResolution /\ NoVersionQuery /\ NoAccess /\ NoComparison
    /\ NoLater
    /\ \E variant \in Variants, exit_code \in ExitCodes, direct \in ReportStates,
          invariant \in ReportStates :
          pr_in = [called |-> TRUE, variant |-> variant, exit_code |-> exit_code,
                   direct |-> direct, invariant |-> invariant]
    /\ pr_out = [done |-> FALSE, returned |-> NotReturned, parsed |-> NotParsed]

\* run returns after the child exited in time
RunReturnsExitCode ==
    /\ pr_in.called
    /\ ~pr_out.done
    /\ pr_out' = [pr_out EXCEPT !.done = TRUE, !.returned = RunValue(pr_in.exit_code)]
    /\ UNCHANGED pr_in

\* get_result(): parse_results(self.test_run_dir)
GetResult ==
    /\ pr_in.called
    /\ pr_out.parsed = NotParsed
    /\ pr_out' = [pr_out EXCEPT !.parsed = parse_results(pr_in.direct, pr_in.invariant)]
    /\ UNCHANGED pr_in

NextResults ==
    \/ RunReturnsExitCode /\ UNCHANGED <<reqVars, runVars, outVars, cmdVars, ivVars, exVars, gvVars, acVars, eqVars, laterVars>>
    \/ GetResult /\ UNCHANGED <<reqVars, runVars, outVars, cmdVars, ivVars, exVars, gvVars, acVars, eqVars, laterVars>>

SpecResults == InitResults /\ [][NextResults]_vars

\* C27 as stated: after a run that ended in time the result of run holds the exit
\* code and, for each report, the parsed suite or None when the file is missing; with
\* only the direct report present it is (exit_code, direct_suite, None).
C27_RunReportsSuites ==
    (pr_out.done /\ pr_in.direct # "malformed" /\ pr_in.invariant # "malformed") =>
        /\ pr_out.returned.kind = "tuple"
        /\ pr_out.returned.exit_code = pr_in.exit_code
        /\ pr_out.returned.direct = from_file(pr_in.direct, "direct_suite").suite
        /\ pr_out.returned.invariant = from_file(pr_in.invariant, "invariant_suite").suite

(***************************************************************************)
(* get_version of SdcccRunner and of SdcccRunnerAsync                       *)
(***************************************************************************)

\* What the child can write to a pipe before it exits, as bytes in pieces; 0xff stands
\* for a byte sequence that is not UTF-8.
ChildOutputs ==
    {<<>>, <<"\n">>, <<"1.0">>, <<" ", "1.0", "\n">>, <<"1", " ", "0">>, <<"0xff">>}
ChildErrors == {<<>>, <<"usage">>}

\* The exit codes of the version query: its own, or that of a killed child
VersionExitCodes == ExitCodes \cup {-9}

Whitespace == {" ", "\n"}

RECURSIVE lstrip(_)
lstrip(text) ==
    IF text # <<>> /\ Head(text) \in Whitespace THEN lstrip(Tail(text)) ELSE text

RECURSIVE rstrip(_)
rstrip(text) ==
    IF text # <<>> /\ text[Len(text)] \in Whitespace
    THEN rstrip(SubSeq(text, 1, Len(text) - 1))
    ELSE text

\* str.strip()
strip(text) == rstrip(lstrip(text))

\* bytes.decode(): UnicodeDecodeError for bytes that are not UTF-8
Decodable(bytes) == \A i \in DOMAIN bytes : bytes[i] # "0xff"

NoValue == [error |-> "none", returncode |-> 0, value |-> PyNone]

\* process.stdout.decode().strip()
DecodeAndStrip(stdout) ==
    IF Decodable(stdout)
    THEN [NoValue EXCEPT !.value = PyStr(strip(stdout))]
    ELSE [NoValue EXCEPT !.error = "UnicodeDecodeError"]

\* SdcccRunnerAsync.get_version without the check of the return code
get_version_async_Unchecked(exit_code, stdout) ==
    IF stdout # <<>> THEN DecodeAndStrip(stdout) ELSE NoValue

\* SdcccRunner.get_version: subprocess.run(..., check=True, capture_output=True)
get_version(exit_code, stdout) ==
    IF exit_code # 0
    THEN [NoValue EXCEPT !.error = "CalledProcessError", !.returncode = exit_code]
    ELSE DecodeAndStrip(stdout)

\* SdcccRunnerAsync.get_version: communicate(), the check of process.returncode, and
\* None for an empty stdout
get_version_async(exit_code, stdout) ==
    IF exit_code # 0
    THEN [NoValue EXCEPT !.error = "CalledProcessError", !.returncode = exit_code]
    ELSE IF stdout # <<>> THEN DecodeAndStrip(stdout) ELSE NoValue

InitVersion ==
    /\ NoValidation
    /\ NoRunnerYet
    /\ NoOutput
    /\ NoCommand
    /\ NoInvocation /\ NoResolution /\ NoParse /\ NoAccess /\ NoComparison
    /\ NoLater
    /\ \E variant \in Variants, exit_code \in VersionExitCodes, stdout \in ChildOutputs,
          stderr \in ChildErrors :
          gv_in = [called |-> TRUE, variant |-> variant, exit_code |-> exit_code,
                   stdout |-> stdout, stderr |-> stderr]
    /\ gv_out = [done |-> FALSE]

GetVersion ==
    /\ gv_in.called
    /\ gv_in.variant = "SdcccRunner"
    /\ ~gv_out.done
    /\ gv_out' = [done |-> TRUE, result |-> get_version(gv_in.exit_code, gv_in.stdout)]
    /\ UNCHANGED gv_in

GetVersionAsync ==
    /\ gv_in.called
    /\ gv_in.variant = "SdcccRunnerAsync"
    /\ ~gv_out.done
    /\ gv_out' = [done |-> TRUE, result |-> get_version_async(gv_in.exit_code, gv_in.stdout)]
    /\ UNCHANGED gv_in

NextVersion ==
    \/ GetVersion /\ UNCHANGED <<reqVars, runVars, outVars, cmdVars, ivVars, exVars, prVars, acVars, eqVars, laterVars>>
    \/ GetVersionAsync /\ UNCHANGED <<reqVars, runVars, outVars, cmdVars, ivVars, exVars, prVars, acVars, eqVars, laterVars>>

SpecVersion == InitVersion /\ [][NextVersion]_vars

\* A failed query raises CalledProcessError with the exit code and returns no value.
FailedQueryRaises ==
    gv_in.exit_code # 0 =>
        /\ gv_out.result.error = "CalledProcessError"
        /\ gv_out.result.returncode = gv_in.exit_code
        /\ gv_out.result.value = PyNone

ChildBehaviours == {"launch fails", "exits in time", "exceeds timeout", "exits as timeout fires"}

NotRun == [kind |-> "not run", value |-> PyNone, error |-> "none", argv |-> <<>>]
OutcomeReturned(v, argv) == [NotRun EXCEPT !.kind = "returned", !.value = v, !.argv = argv]
OutcomeRaised(e, argv) == [NotRun EXCEPT !.kind = "raised", !.error = e, !.argv = argv]

\* The argument string of the compared call of run
ComparedArgs ==
    FlagString(PreparedFlags(eq_in.test_run_dir, eq_in.config, eq_in.requirements, <<>>))

InitCompare ==
    /\ NoValidation
    /\ NoRunnerYet
    /\ NoOutput
    /\ NoCommand
    /\ NoInvocation /\ NoResolution /\ NoParse /\ NoVersionQuery /\ NoAccess
    /\ NoLater
    /\ \/ \E test_run_dir \in TestRunDirs, config \in ConfigPaths,
             behaviour \in ChildBehaviours, exit_code \in ExitCodes,
             killed \in KilledExitCodes :
             eq_in = [called |-> TRUE, operation |-> "run", test_run_dir |-> test_run_dir,
                      config |-> config, requirements |-> <<"/r.toml">>,
                      behaviour |-> behaviour, exit_code |-> exit_code,
                      killed |-> killed, stdout |-> <<>>]
       \/ \E exit_code \in VersionExitCodes, stdout \in ChildOutputs :
             eq_in = [called |-> TRUE, operation |-> "get_version", test_run_dir |-> <<"/run">>,
                      config |-> <<"/c.toml">>, requirements |-> <<"/r.toml">>,
                      behaviour |-> "exits in time", exit_code |-> exit_code,
                      killed |-> -9, stdout |-> stdout]
    /\ eq_out = [done |-> FALSE, blocking |-> NotRun, async |-> NotRun]

\* SdcccRunner.run: Popen of the command line, wait(timeout), kill after
\* TimeoutExpired (a child that has exited meanwhile is not signalled), the return
\* code is returned
BlockingRun ==
    /\ eq_in.called
    /\ eq_in.operation = "run"
    /\ eq_out.blocking = NotRun
    /\ LET argv == ChildArgv("SdcccRunner", ComparedArgs)
           outcome ==
               CASE eq_in.behaviour = "launch fails" -> OutcomeRaised("OSError", argv)
                 [] eq_in.behaviour = "exits in time" -> OutcomeReturned(PyInt(eq_in.exit_code), argv)
                 [] eq_in.behaviour = "exceeds timeout" -> OutcomeReturned(PyInt(eq_in.killed), argv)
                 [] eq_in.behaviour = "exits as timeout fires" ->
                        OutcomeReturned(PyInt(eq_in.exit_code), argv)
       IN  eq_out' = [eq_out EXCEPT !.blocking = outcome, !.done = eq_out.async # NotRun]
    /\ UNCHANGED eq_in

\* SdcccRunnerAsync.run: subprocess_exec, wait_for(closed_event, timeout),
\* transport.kill() after TimeoutError; when connection_lost has already run by then
\* the transport has no process and kill raises ProcessLookupError
AsyncRun ==
    /\ eq_in.called
    /\ eq_in.operation = "run"
    /\ eq_out.async = NotRun
    /\ \E connection_lost_ran \in BOOLEAN :
          LET argv == ChildArgv("SdcccRunnerAsync", ComparedArgs)
              outcome ==
                  CASE eq_in.behaviour = "launch fails" -> OutcomeRaised("OSError", argv)
                    [] eq_in.behaviour = "exits in time" -> OutcomeReturned(PyInt(eq_in.exit_code), argv)
                    [] eq_in.behaviour = "exceeds timeout" -> OutcomeReturned(PyInt(eq_in.killed), argv)
                    [] eq_in.behaviour = "exits as timeout fires" ->
                           IF connection_lost_ran
                           THEN OutcomeRaised("ProcessLookupError", argv)
                           ELSE OutcomeReturned(PyInt(eq_in.exit_code), argv)
          IN  eq_out' = [eq_out EXCEPT !.async = outcome, !.done = eq_out.blocking # NotRun]
    /\ UNCHANGED eq_in

VersionOutcome(version) ==
    IF version.error = "none"
    THEN OutcomeReturned(version.value, <<ExePath, <<"--version">>>>)
    ELSE OutcomeRaised(version.error, <<ExePath, <<"--version">>>>)

BlockingGetVersion ==
    /\ eq_in.called
    /\ eq_in.operation = "get_version"
    /\ eq_out.blocking = NotRun
    /\ eq_out' = [eq_out EXCEPT
                     !.blocking = VersionOutcome(get_version(eq_in.exit_code, eq_in.stdout)),
                     !.done = eq_out.async # NotRun]
    /\ UNCHANGED eq_in

AsyncGetVersion ==
    /\ eq_in.called
    /\ eq_in.operation = "get_version"
    /\ eq_out.async = NotRun
    /\ eq_out' = [eq_out EXCEPT
                     !.async = VersionOutcome(get_version_async(eq_in.exit_code, eq_in.stdout)),
                     !.done = eq_out.blocking # NotRun]
    /\ UNCHANGED eq_in

NextCompare ==
    \/ BlockingRun /\ UNCHANGED <<reqVars, runVars, outVars, cmdVars, ivVars, exVars, prVars, gvVars, acVars, laterVars>>
    \/ AsyncRun /\ UNCHANGED <<reqVars, runVars, outVars, cmdVars, ivVars, exVars, prVars, gvVars, acVars, laterVars>>
    \/ BlockingGetVersion /\ UNCHANGED <<reqVars, runVars, outVars, cmdVars, ivVars, exVars, prVars, gvVars, acVars, laterVars>>
    \/ AsyncGetVersion /\ UNCHANGED <<reqVars, runVars, outVars, cmdVars, ivVars, exVars, prVars, gvVars, acVars, laterVars>>

SpecCompare == InitCompare /\ [][NextCompare]_vars

\* C29 as stated: for the same inputs and the same child behaviour SdcccRunner and
\* SdcccRunnerAsync end the same way: run with the same exit code or error kind and
\* the same argument vector for the child, get_version with the same value or error
\* kind.
C29_VariantsAgree ==
    eq_out.done =>
        /\ eq_out.blocking.kind = eq_out.async.kind
        /\ eq_out.blocking.value = eq_out.async.value
        /\ eq_out.blocking.error = eq_out.async.error
        /\ eq_out.blocking.argv = eq_out.async.argv

(***************************************************************************)
(* The accessors get_config, get_requirements, get_test_parameter and the   *)
(* method check_requirements(path), with the files changing in between.     *)
(***************************************************************************)

\* The most accessor calls of a behaviour.
MaxCalls == 2

\* The files of self.exe.parent / "configuration"
FileNames == {"config.toml", "test_configuration.toml", "test_parameter.toml"}

\* The dicts a well-formed file can denote
DictValues ==
    {[s \in {"biceps"} |-> [r \in {"b1"} |-> TRUE]],
     [s \in {"biceps"} |-> [r \in {"b1"} |-> FALSE]]}

MissingFile == [exists |-> FALSE, wellformed |-> FALSE, denotes |-> <<>>]
MalformedFile == [exists |-> TRUE, wellformed |-> FALSE, denotes |-> <<>>]
FileStates ==
    {MissingFile, MalformedFile} \cup
    {[exists |-> TRUE, wellformed |-> TRUE, denotes |-> d] : d \in DictValues}

\* The requirement files a user can pass to check_requirements(path)
UserCatalogs ==
    {<<>>,
     <<[standard |-> "biceps", requirements |-> <<[req |-> "b1", enabled |-> TRUE]>>]>>,
     <<[standard |-> "mdpws", requirements |-> <<>>]>>}
UserFiles ==
    {MissingFile} \cup {[exists |-> TRUE, wellformed |-> TRUE, denotes |-> u] : u \in UserCatalogs}

NeverLoaded == [loaded |-> FALSE]

\* toml.load(path)
toml_load(file) ==
    IF ~file.exists THEN [error |-> "FileNotFoundError", dict |-> <<>>, key |-> NoError]
    ELSE IF ~file.wellformed THEN [error |-> "TomlDecodeError", dict |-> <<>>, key |-> NoError]
    ELSE [error |-> "none", dict |-> file.denotes, key |-> NoError]

\* _load_configuration if it kept the dict of the first load of each file
load_configuration_Cached(files, first, name) ==
    IF first[name] # NeverLoaded THEN toml_load(first[name]) ELSE toml_load(files[name])

\* _load_configuration(path): dict(toml.load(path)), read from the file as it is now
load_configuration(files, first, name) == toml_load(files[name])

RECURSIVE CheckFrom(_, _, _)
\* check_requirements(provided, available): the first error of the loops, or none
CheckFrom(prov, avail, i) ==
    IF i > Len(prov) THEN NoError
    ELSE LET standard == prov[i].standard
         IN  IF standard \notin DOMAIN avail THEN UnsupportedStandard(standard)
             ELSE LET wanted == ProvidedEnabled(prov[i].requirements)
                      unmet == {k \in DOMAIN wanted :
                                   wanted[k] \notin AvailableEnabled(avail, standard)}
                  IN  IF unmet # {}
                      THEN RequirementNotFound(standard,
                               wanted[CHOOSE k \in unmet : \A m \in unmet : k <= m])
                      ELSE CheckFrom(prov, avail, i + 1)

\* _BaseRunner.check_requirements(path): get_requirements(), toml.load(path), then
\* the check
check_requirements_method(files, first, user) ==
    LET sdccc_provided == load_configuration(files, first, "test_configuration.toml")
        user_provided == toml_load(user)
    IN  IF sdccc_provided.error # "none" THEN sdccc_provided
        ELSE IF user_provided.error # "none" THEN user_provided
        ELSE LET outcome == CheckFrom(user_provided.dict, sdccc_provided.dict, 1)
             IN  [error |-> outcome.kind, dict |-> <<>>, key |-> outcome]

InitAccess ==
    /\ NoValidation
    /\ NoRunnerYet
    /\ NoOutput
    /\ NoCommand
    /\ NoInvocation /\ NoResolution /\ NoParse /\ NoVersionQuery /\ NoComparison
    /\ NoLater
    /\ \E files \in [FileNames -> FileStates] : ac_in = [called |-> TRUE, files |-> files]
    /\ ac_out = [done |-> FALSE, calls |-> 0, call |-> "none", user |-> MissingFile,
                 returned |-> toml_load(MissingFile),
                 first |-> [n \in FileNames |-> NeverLoaded]]

\* The part of an accessor call all of them share: the file is loaded and the dict
\* returned
Access(accessor, name) ==
    /\ ac_in.called
    /\ ac_out.calls < MaxCalls
    /\ ac_out' = [done |-> TRUE, calls |-> ac_out.calls + 1, call |-> accessor,
                  user |-> MissingFile,
                  returned |-> load_configuration(ac_in.files, ac_out.first, name),
                  first |-> IF ac_out.first[name] = NeverLoaded
                            THEN [ac_out.first EXCEPT ![name] = ac_in.files[name]]
                            ELSE ac_out.first]
    /\ UNCHANGED ac_in

GetConfig == Access("get_config", "config.toml")
GetRequirements == Access("get_requirements", "test_configuration.toml")
GetTestParameter == Access("get_test_parameter", "test_parameter.toml")

CheckRequirementsOfFile ==
    /\ ac_in.called
    /\ ac_out.calls < MaxCalls
    /\ \E user \in UserFiles :
          ac_out' = [done |-> TRUE, calls |-> ac_out.calls + 1, call |-> "check_requirements",
                     user |-> user,
                     returned |-> check_requirements_method(ac_in.files, ac_out.first, user),
                     first |-> IF ac_out.first["test_configuration.toml"] = NeverLoaded
                               THEN [ac_out.first EXCEPT !["test_configuration.toml"] =
                                        ac_in.files["test_configuration.toml"]]
                               ELSE ac_out.first]
    /\ UNCHANGED ac_in

\* Somebody else rewrites, replaces or removes one of the files.
ExternalChange ==
    /\ ac_in.called
    /\ \E name \in FileNames, file \in FileStates :
          /\ file # ac_in.files[name]
          /\ ac_in' = [ac_in EXCEPT !.files[name] = file]
    /\ UNCHANGED ac_out

NextAccess ==
    \/ GetConfig /\ UNCHANGED <<reqVars, runVars, outVars, cmdVars, ivVars, exVars, prVars, gvVars, eqVars, laterVars>>
    \/ GetRequirements /\ UNCHANGED <<reqVars, runVars, outVars, cmdVars, ivVars, exVars, prVars, gvVars, eqVars, laterVars>>
    \/ GetTestParameter /\ UNCHANGED <<reqVars, runVars, outVars, cmdVars, ivVars, exVars, prVars, gvVars, eqVars, laterVars>>
    \/ CheckRequirementsOfFile /\ UNCHANGED <<reqVars, runVars, outVars, cmdVars, ivVars, exVars, prVars, gvVars, eqVars, laterVars>>
    \/ ExternalChange /\ UNCHANGED <<reqVars, runVars, outVars, cmdVars, ivVars, exVars, prVars, gvVars, eqVars, laterVars>>

SpecAccess == InitAccess /\ [][NextAccess]_vars

\* The file an accessor reads
FileOf(accessor) ==
    CASE accessor = "get_config" -> "config.toml"
      [] accessor = "get_test_parameter" -> "test_parameter.toml"
      [] OTHER -> "test_configuration.toml"

\* What a call has to return for the files as they are when it is made
FreshAnswer(accessor, files, user) ==
    IF accessor = "check_requirements"
    THEN LET avail == toml_load(files["test_configuration.toml"])
             prov == toml_load(user)
         IN  IF avail.error # "none" THEN avail
             ELSE IF prov.error # "none" THEN prov
             ELSE [error |-> CheckFrom(prov.dict, avail.dict, 1).kind, dict |-> <<>>,
                   key |-> CheckFrom(prov.dict, avail.dict, 1)]
    ELSE toml_load(files[FileOf(accessor)])

\* C30: every call of get_config, get_requirements and get_test_parameter returns
\* the content its file has at the time of that call, whatever was loaded before and
\* however the files changed in between, and check_requirements(path) validates
\* against the available catalog as it is at the time of the call.
C30_NoCaching ==
    [][ac_out'.calls = ac_out.calls + 1 =>
          ac_out'.returned = FreshAnswer(ac_out'.call, ac_in.files, ac_out'.user)]_vars

\* A file was loaded, then changed, then loaded again, and the second call returned
\* the new content.
C30_Witness ==
    /\ ac_out.calls = 2
    /\ ac_out.call \in {"get_requirements", "check_requirements"}
    /\ ac_out.first["test_configuration.toml"] # NeverLoaded
    /\ ac_out.first["test_configuration.toml"] # ac_in.files["test_configuration.toml"]
    /\ ac_out.returned = FreshAnswer(ac_out.call, ac_in.files, ac_out.user)
    /\ ac_out.returned # FreshAnswer(ac_out.call,
                            [ac_in.files EXCEPT !["test_configuration.toml"] =
                                ac_out.first["test_configuration.toml"]], ac_out.user)

(***************************************************************************)
(* is_downloaded and is_downloaded_async of _download.py                    *)
(***************************************************************************)

\* The versions asked for
AskedVersions == {<<"1.0">>, <<>>}

\* How starting the executable for the version query ends: the child runs, the file
\* has vanished since the runner was built, or the file cannot be executed
LaunchOutcomes == {"started", "FileNotFoundError", "PermissionError"}

\* pathlib.Path().absolute(): the current directory, absolute and a directory
CurrentDirectory == [absolute |-> TRUE, kind |-> "dir", empty |-> FALSE]

\* Runner(pathlib.Path().absolute()).get_version(): the constructor, the launch of
\* the version query and get_version of the variant
VersionOfInstallation(variant, storage, launch, exit_code, stdout) ==
    LET init == BaseRunnerInit(NoExe, CurrentDirectory, storage)
    IN  IF init.error # "none" THEN [NoValue EXCEPT !.error = init.error]
        ELSE IF launch # "started" THEN [NoValue EXCEPT !.error = launch]
        ELSE IF variant = "SdcccRunner" THEN get_version(exit_code, stdout)
        ELSE get_version_async(exit_code, stdout)

\* try: return Runner(...).get_version() == version
\* except (FileNotFoundError, subprocess.CalledProcessError): return False
is_downloaded(variant, version, storage, launch, exit_code, stdout) ==
    LET found == VersionOfInstallation(variant, storage, launch, exit_code, stdout)
    IN  IF found.error \in {"FileNotFoundError", "CalledProcessError"}
        THEN [error |-> "none", value |-> PyFalse]
        ELSE IF found.error # "none"
        THEN [error |-> found.error, value |-> PyNone]
        ELSE [error |-> "none",
              value |-> IF PyEq(found.value, PyStr(version)) THEN PyTrue ELSE PyFalse]

InitDownloaded ==
    /\ NoValidation
    /\ NoRunnerYet
    /\ NoOutput
    /\ NoCommand
    /\ NoInvocation /\ NoResolution /\ NoParse /\ NoVersionQuery /\ NoAccess /\ NoComparison
    /\ NoCwd /\ NoRedirects /\ NoDescendants
    /\ \E variant \in Variants, version \in AskedVersions, storage \in Storages,
          launch \in LaunchOutcomes, exit_code \in VersionExitCodes, stdout \in ChildOutputs :
          dl_in = [called |-> TRUE, variant |-> variant, version |-> version,
                   storage |-> storage, launch |-> launch, exit_code |-> exit_code,
                   stdout |-> stdout]
    /\ dl_out = [done |-> FALSE]

IsDownloaded ==
    /\ dl_in.called
    /\ dl_in.variant = "SdcccRunner"
    /\ ~dl_out.done
    /\ dl_out' = [done |-> TRUE,
                  outcome |-> is_downloaded(dl_in.variant, dl_in.version, dl_in.storage,
                                            dl_in.launch, dl_in.exit_code, dl_in.stdout)]
    /\ UNCHANGED dl_in

IsDownloadedAsync ==
    /\ dl_in.called
    /\ dl_in.variant = "SdcccRunnerAsync"
    /\ ~dl_out.done
    /\ dl_out' = [done |-> TRUE,
                  outcome |-> is_downloaded(dl_in.variant, dl_in.version, dl_in.storage,
                                            dl_in.launch, dl_in.exit_code, dl_in.stdout)]
    /\ UNCHANGED dl_in

NextDownloaded ==
    \/ IsDownloaded /\ UNCHANGED <<reqVars, runVars, outVars, cmdVars, ivVars, exVars, prVars, gvVars, acVars, eqVars, cwVars, rdVars, ptVars>>
    \/ IsDownloadedAsync /\ UNCHANGED <<reqVars, runVars, outVars, cmdVars, ivVars, exVars, prVars, gvVars, acVars, eqVars, cwVars, rdVars, ptVars>>

SpecDownloaded == InitDownloaded /\ [][NextDownloaded]_vars

\* The installation answers the version query with the version asked for.
InstalledVersionMatches ==
    LET found == VersionOfInstallation(dl_in.variant, dl_in.storage, dl_in.launch,
                                       dl_in.exit_code, dl_in.stdout)
    IN  found.error = "none" /\ PyEq(found.value, PyStr(dl_in.version))

\* C31 as stated: is_downloaded and is_downloaded_async never raise, whatever the
\* state of the installation; they return True exactly when a runner can be built from
\* the default storage directory and its get_version() equals the version, and False
\* otherwise.
C31_NeverRaises ==
    dl_out.done =>
        /\ dl_out.outcome.error = "none"
        /\ dl_out.outcome.value = IF InstalledVersionMatches THEN PyTrue ELSE PyFalse

(***************************************************************************)
(* Properties of the wait without a timeout                                 *)
(***************************************************************************)

C33_FlushBeforeClose ==
    (timedOut /\ (pipesClosed \/ transportClosed)) =>
        /\ killCalls = 1
        /\ \A stream \in Streams : delivered[stream] = written[stream]

(***************************************************************************)
(* Properties of the reader threads at the end of the stream                *)
(***************************************************************************)

EntriesOf(stream) == Cardinality({i \in DOMAIN log : log[i].stream = stream})

\* C39 as stated: a reader thread hands to the logging sink no more entries than the
\* child wrote lines to its stream, and no empty entry once the child has closed its
\* end of the pipe.
C39_NothingUnwrittenLogged ==
    IsBlocking =>
        \A stream \in Streams :
            /\ EntriesOf(stream) <= written[stream]
            /\ EmptyEntries(stream) = 0

(***************************************************************************)
(* Properties of the cleanup of the concurrent engine                       *)
(***************************************************************************)

BlockingRunning ==
    IsBlocking /\ rpc \in {"start_readers", "wait", "kill", "close_pipes", "popen_exit", "join"}

\* C34 as stated: once the child has terminated, on its own or killed, _run_sdccc
\* returns eventually, whether the reader threads finish or not (they are joined with
\* a timeout); and each reader thread finishes eventually once the main thread has
\* closed its pipe.
C34_BlockingTerminates ==
    /\ (BlockingRunning /\ child = "exited") ~> RunDone
    /\ \A stream \in Streams :
          (pipesClosed /\ readers[stream] = "running") ~> readers[stream] = "finished"

(***************************************************************************)
(* The working directory: the legacy _cwd and _run_sdccc (runner.py), and   *)
(* the cwd argument the current runners hand to the child (_runner.py)      *)
(***************************************************************************)

MaxThreads == 2

WorkDir == "/work"
ExeDirs == {"/sdccc-a", "/sdccc-b"}
StartDirs == {WorkDir, "/sdccc-a"}

\* The calls that go through _cwd, and the calls that pass cwd= to the child
CwdKinds == {"_cwd", "legacy_run_sdccc"}
SpawnKinds == {"run", "run_async", "get_version", "get_version_async"}

\* How the body of the call ends: it returns; the launch fails (Popen / subprocess.run /
\* subprocess_exec raises OSError); it raises after the child was started.
CallOutcomes == {"returns", "launch_fails", "raises"}

\* One call: _cwd is given any path, existing or not, and any body; the runners
\* are given an executable that exists, so its directory exists.
CwdCalls ==
    [kind : {"_cwd"}, path : ExeDirs, exists : BOOLEAN, outcome : {"returns", "raises"}]
        \cup [kind : {"legacy_run_sdccc"} \cup SpawnKinds, path : ExeDirs, exists : {TRUE},
              outcome : CallOutcomes]

NewThread(c) ==
    [kind |-> c.kind, path |-> c.path, exists |-> c.exists, outcome |-> c.outcome,
     pc |-> IF c.kind \in CwdKinds THEN "origin" ELSE "spawn",
     before |-> cw_cwd, origin |-> "unset", inBody |-> "unset", childCwd |-> "none",
     raised |-> FALSE, after |-> "unset"]

AllDone == \A i \in 1..Len(cw_threads) : cw_threads[i].pc = "done"

InitCwd ==
    /\ NoValidation /\ NoRunnerYet /\ NoOutput /\ NoCommand
    /\ NoInvocation /\ NoResolution /\ NoParse /\ NoVersionQuery /\ NoAccess /\ NoComparison
    /\ NoDownloadCheck /\ NoRedirects /\ NoDescendants
    /\ cw_cwd \in StartDirs
    /\ cw_threads = <<>>

\* A thread of the calling process makes a call
StartCall ==
    /\ Len(cw_threads) < MaxThreads
    /\ \E c \in CwdCalls : cw_threads' = Append(cw_threads, NewThread(c))
    /\ UNCHANGED cw_cwd

\* _cwd: origin = pathlib.Path.cwd()
CwdOrigin(i) ==
    /\ cw_threads[i].pc = "origin"
    /\ cw_threads' = [cw_threads EXCEPT ![i].origin = cw_cwd, ![i].pc = "chdir"]
    /\ UNCHANGED cw_cwd

\* _cwd: try: os.chdir(path); FileNotFoundError goes to finally
CwdChdir(i) ==
    /\ cw_threads[i].pc = "chdir"
    /\ IF cw_threads[i].exists
       THEN /\ cw_cwd' = cw_threads[i].path
            /\ cw_threads' = [cw_threads EXCEPT ![i].pc = "body"]
       ELSE /\ cw_threads' = [cw_threads EXCEPT ![i].raised = TRUE, ![i].pc = "finally"]
            /\ UNCHANGED cw_cwd

\* yield: the body of the with statement. In the legacy _run_sdccc it is Popen without
\* a cwd argument, so the child inherits the directory the process is in at that
\* moment, followed by the wait.
CwdBody(i) ==
    /\ cw_threads[i].pc = "body"
    /\ cw_threads' =
          [cw_threads EXCEPT
              ![i].inBody = cw_cwd,
              ![i].childCwd = IF /\ cw_threads[i].kind = "legacy_run_sdccc"
                                 /\ cw_threads[i].outcome # "launch_fails"
                              THEN cw_cwd ELSE "none",
              ![i].raised = cw_threads[i].outcome # "returns",
              ![i].pc = "finally"]
    /\ UNCHANGED cw_cwd

\* Mutant of CwdFinally: the directory is restored only when nothing was raised.
CwdFinallyOnSuccess(i) ==
    /\ cw_threads[i].pc = "finally"
    /\ cw_cwd' = IF cw_threads[i].raised THEN cw_cwd ELSE cw_threads[i].origin
    /\ cw_threads' = [cw_threads EXCEPT ![i].pc = "done", ![i].after = cw_cwd']

\* _cwd: finally: os.chdir(origin)
CwdFinally(i) ==
    /\ cw_threads[i].pc = "finally"
    /\ cw_cwd' = cw_threads[i].origin
    /\ cw_threads' = [cw_threads EXCEPT ![i].pc = "done", ![i].after = cw_cwd']

\* Mutant of SpawnWithCwd: no cwd argument, the child inherits the directory of the
\* calling process.
SpawnInherits(i) ==
    /\ cw_threads[i].pc = "spawn"
    /\ cw_threads' =
          [cw_threads EXCEPT
              ![i].childCwd = IF cw_threads[i].outcome = "launch_fails"
                              THEN "none" ELSE cw_cwd,
              ![i].raised = cw_threads[i].outcome # "returns",
              ![i].pc = "done",
              ![i].after = cw_cwd]
    /\ UNCHANGED cw_cwd

\* _run_sdccc, SdcccRunnerAsync.run, get_version of both variants: the child is started
\* with cwd=exe_path.parent / cwd=self.exe.parent
SpawnWithCwd(i) ==
    /\ cw_threads[i].pc = "spawn"
    /\ cw_threads' =
          [cw_threads EXCEPT
              ![i].childCwd = IF cw_threads[i].outcome = "launch_fails"
                              THEN "none" ELSE cw_threads[i].path,
              ![i].raised = cw_threads[i].outcome # "returns",
              ![i].pc = "done",
              ![i].after = cw_cwd]
    /\ UNCHANGED cw_cwd

notCwVars ==
    <<reqVars, runVars, outVars, cmdVars, ivVars, exVars, prVars, gvVars, acVars, eqVars,
      dlVars, rdVars, ptVars>>

\* One call after the other
NextCwdSequential ==
    \/ AllDone /\ StartCall /\ UNCHANGED notCwVars
    \/ \E i \in 1..Len(cw_threads) : CwdOrigin(i) /\ UNCHANGED notCwVars
    \/ \E i \in 1..Len(cw_threads) : CwdChdir(i) /\ UNCHANGED notCwVars
    \/ \E i \in 1..Len(cw_threads) : CwdBody(i) /\ UNCHANGED notCwVars
    \/ \E i \in 1..Len(cw_threads) : CwdFinally(i) /\ UNCHANGED notCwVars
    \/ \E i \in 1..Len(cw_threads) : SpawnWithCwd(i) /\ UNCHANGED notCwVars

SpecCwdSequential == InitCwd /\ [][NextCwdSequential]_vars

\* Calls made by several threads of one process, in any interleaving
NextCwd ==
    \/ StartCall /\ UNCHANGED notCwVars
    \/ \E i \in 1..Len(cw_threads) : CwdOrigin(i) /\ UNCHANGED notCwVars
    \/ \E i \in 1..Len(cw_threads) : CwdChdir(i) /\ UNCHANGED notCwVars
    \/ \E i \in 1..Len(cw_threads) : CwdBody(i) /\ UNCHANGED notCwVars
    \/ \E i \in 1..Len(cw_threads) : CwdFinally(i) /\ UNCHANGED notCwVars
    \/ \E i \in 1..Len(cw_threads) : SpawnWithCwd(i) /\ UNCHANGED notCwVars

SpecCwd == InitCwd /\ [][NextCwd]_vars

RunnerKinds == SpawnKinds \cup {"legacy_run_sdccc"}

C36_CwdRestored ==
    \A i \in 1..Len(cw_threads) :
        cw_threads[i].kind = "_cwd" =>
            /\ cw_threads[i].pc = "body" => cw_cwd = cw_threads[i].path
            /\ cw_threads[i].inBody \in {"unset", cw_threads[i].path}
            /\ cw_threads[i].pc \in {"chdir", "body", "finally", "done"} =>
                  cw_threads[i].origin = cw_threads[i].before
            /\ cw_threads[i].pc = "done" =>
                  /\ cw_threads[i].after = cw_threads[i].before
                  /\ cw_threads[i].raised = (~cw_threads[i].exists \/ cw_threads[i].outcome = "raises")

C36_Witness ==
    /\ Len(cw_threads) = 2
    /\ cw_threads[1].kind = "_cwd" /\ cw_threads[1].pc = "done"
    /\ cw_threads[1].raised /\ cw_threads[1].inBody = "/sdccc-b"
    /\ cw_threads[2].kind = "_cwd" /\ cw_threads[2].pc = "done"
    /\ ~cw_threads[2].exists /\ cw_threads[2].raised
    /\ cw_cwd = WorkDir

AllLegacyRuns ==
    /\ Len(cw_threads) = MaxThreads
    /\ \A i \in 1..Len(cw_threads) : cw_threads[i].kind = "legacy_run_sdccc"

\* C38 as stated: for every interleaving of concurrent legacy _run_sdccc calls, when
\* all of them have finished the process is in the directory it was in before the
\* first call, and each child was started in the directory of its own executable.
C38_ConcurrentLegacyRuns ==
    AllLegacyRuns =>
        /\ AllDone => cw_cwd = cw_threads[1].before
        /\ \A i \in 1..Len(cw_threads) :
              cw_threads[i].childCwd \in {"none", cw_threads[i].path}

(***************************************************************************)
(* The legacy download: _download_version_to_stream (runner.py)             *)
(***************************************************************************)

MAX_REDIRECT_COUNT == 4

MaxChain == 7
MaxChunks == 2

\* What the last server of the chain answers: a body, a client or server error, or
\* nothing (the request fails with OSError)
FinalAnswers == {"2xx", "4xx", "5xx", "OSError"}

\* The answer to the request of the call whose redirect_counter is n, when the
\* first `redirects` servers of the chain answer with a redirection
ResponseTo(n) == IF n < rd_in.redirects THEN "3xx" ELSE rd_in.final

InitRedirects ==
    /\ NoValidation /\ NoRunnerYet /\ NoOutput /\ NoCommand
    /\ NoInvocation /\ NoResolution /\ NoParse /\ NoVersionQuery /\ NoAccess /\ NoComparison
    /\ NoDownloadCheck /\ NoCwd /\ NoDescendants
    /\ \E redirects \in 0..MaxChain, final \in FinalAnswers, chunks \in 0..MaxChunks :
          rd_in = [called |-> TRUE, redirects |-> redirects, final |-> final,
                   chunks |-> chunks]
    /\ rd_out = [done |-> FALSE, pc |-> "connect", redirect_counter |-> 0, opened |-> 0,
                 closed |-> 0, followed |-> 0, written |-> 0, code |-> "none",
                 outcome |-> "none"]

\* connection = HTTPSConnection(...); try: connection.request("GET", ...);
\* response = connection.getresponse()
SendRequest ==
    /\ rd_in.called /\ ~rd_out.done
    /\ rd_out.pc = "connect"
    /\ rd_out' =
          IF ResponseTo(rd_out.redirect_counter) = "OSError"
          THEN [rd_out EXCEPT !.opened = @ + 1, !.outcome = "OSError", !.pc = "finally"]
          ELSE [rd_out EXCEPT !.opened = @ + 1,
                              !.code = ResponseTo(rd_out.redirect_counter),
                              !.pc = "response"]
    /\ UNCHANGED rd_in

\* if 400 <= code < 600: raise HTTPException
ErrorStatus ==
    /\ rd_out.pc = "response"
    /\ rd_out.code \in {"4xx", "5xx"}
    /\ rd_out' = [rd_out EXCEPT !.outcome = "HTTPException", !.pc = "finally"]
    /\ UNCHANGED rd_in

\* if 300 <= code < 400: if redirect_counter > MAX_REDIRECT_COUNT: raise HTTPException;
\* otherwise the function calls itself with redirect_counter + 1
Redirect ==
    /\ rd_out.pc = "response"
    /\ rd_out.code = "3xx"
    /\ rd_out' =
          IF rd_out.redirect_counter > MAX_REDIRECT_COUNT
          THEN [rd_out EXCEPT !.outcome = "HTTPException", !.pc = "finally"]
          ELSE [rd_out EXCEPT !.redirect_counter = @ + 1, !.followed = @ + 1,
                              !.code = "none", !.pc = "connect"]
    /\ UNCHANGED rd_in

\* while chunk := response.read(...): stream.write(chunk)
ReadBody ==
    /\ rd_out.pc = "response"
    /\ rd_out.code = "2xx"
    /\ rd_out' = [rd_out EXCEPT !.written = rd_in.chunks, !.outcome = "returned",
                                !.pc = "finally"]
    /\ UNCHANGED rd_in

\* finally: connection.close(), in this call and then in each of its callers as the
\* return or the exception passes through them
CloseConnection ==
    /\ rd_out.pc = "finally"
    /\ rd_out.closed < rd_out.opened
    /\ rd_out' = [rd_out EXCEPT !.closed = @ + 1,
                                !.done = (rd_out.closed + 1 = rd_out.opened),
                                !.pc = IF rd_out.closed + 1 = rd_out.opened
                                       THEN "done" ELSE "finally"]
    /\ UNCHANGED rd_in

notRdVars ==
    <<reqVars, runVars, outVars, cmdVars, ivVars, exVars, prVars, gvVars, acVars, eqVars,
      dlVars, cwVars, ptVars>>

NextRedirects ==
    \/ SendRequest /\ UNCHANGED notRdVars
    \/ ErrorStatus /\ UNCHANGED notRdVars
    \/ Redirect /\ UNCHANGED notRdVars
    \/ ReadBody /\ UNCHANGED notRdVars
    \/ CloseConnection /\ UNCHANGED notRdVars

SpecRedirects == InitRedirects /\ [][NextRedirects]_vars

\* C37 as stated: at most MAX_REDIRECT_COUNT (4) redirects are followed, a longer chain
\* of 3xx responses ends with HTTPException, the recursion is bounded, nothing is
\* written to the stream for a 3xx, 4xx or 5xx response, and every connection that was
\* opened is closed when the call is left.
C37_RedirectLimit ==
    /\ rd_in.called => rd_out.followed <= MAX_REDIRECT_COUNT
    /\ (rd_in.called /\ rd_out.done /\ rd_in.redirects > MAX_REDIRECT_COUNT) =>
          rd_out.outcome = "HTTPException"
    /\ rd_in.called => rd_out.opened <= MAX_REDIRECT_COUNT + 1
    /\ (rd_in.called /\ rd_out.code # "2xx" /\ rd_out.outcome # "returned") =>
          rd_out.written = 0
    /\ (rd_in.called /\ rd_out.done) => rd_out.closed = rd_out.opened

====
